---- MODULE Spec2Model ----
(***************************************************************************)
(* The caching core of kapital-api: the circuit breaker                    *)
(* (app/utils/redis/circuit_breaker.py), the Redis store manager           *)
(* (app/utils/redis/redis_manager.py) and the cache-aside decorator        *)
(* (app/utils/redis/cache_decorator.py), the cache service                 *)
(* (app/utils/redis/cache_service.py) and the sanitizers of producer       *)
(* results (app/utils/yahooquery/yahooquery_data_manager.py,               *)
(* app/utils/yfinance_data_manager.py).                                    *)
(*                                                                         *)
(* The specifications share the variables:                                 *)
(*   SpecBreaker  callers of CircuitBreaker.call on one breaker; a call is *)
(*                lines 72-90 (admission), line 93 (func) and lines 94-98  *)
(*                (outcome). The clock may advance and other calls may be  *)
(*                admitted while func runs. The event loop of the service, *)
(*                on which func is synchronous, produces the subset of     *)
(*                these schedules in which calls do not overlap.           *)
(*   Spec         coroutines running redis_cache.wrapper on one event      *)
(*                loop: the code between two awaits is one step.           *)
(*   SpecDaily    Spec for a wrapper decorated with ttl=DAILY.             *)
(*   SpecStore    calls of RedisManager.get, set, delete and clear_all     *)
(*                around midnight UTC, each with its own network outcome.  *)
(*   SpecService  calls of CacheService.get and CacheService.set.          *)
(*   SpecInvalidate  calls of CacheService.invalidate on a seeded store.   *)
(*   SpecKeys     the two key builders applied to pairs of calls.          *)
(*   SpecAdmin    CacheService and the endpoints of api/v1/redis/cache.py. *)
(*   SpecBypass   with statements of BypassCache around manager calls.     *)
(*   SpecRace     two requests for one key in the wrapper at once.         *)
(*   SpecDown     wrapped calls while the server is down.                  *)
(*   SpecRouted   wrapped calls and CacheService.get on one breaker.       *)
(*   SpecCounters the breaker with calls in flight, or CacheService.       *)
(*   SpecSanitize one call of a _sanitize_for_json on a nested value.      *)
(*   SpecMidnight wrapped calls with a ttl and invalidate_at_midnight.     *)
(*   SpecOutside  manager calls of requests outside an open BypassCache.   *)
(*   SpecNoCache  Spec for a wrapper decorated with ttl=NO_CACHE.          *)
(*   SpecCollide  the wrapper's keys for values that format alike.         *)
(*   SpecInFlight invalidations while a wrapped call is awaiting func.     *)
(*   SpecSequential  SpecBreaker with calls that do not overlap.           *)
(*   SpecRecovery SpecBreaker under fairness; the clock never stops.       *)
(***************************************************************************)
EXTENDS Integers, Sequences, FiniteSets, TLC

\* ---------------------------------------------------------------- bounds
MaxTime == 4
MaxThreshold == 3
MaxTimeout == 2
MaxHalfOpen == 2
NumCallers == 2
MaxTtl == 2
MaxCount == 2

\* ------------------------------------------------------ circuit_breaker.py
CLOSED == "closed"
OPEN == "open"
HALF_OPEN == "half_open"

VARIABLES
  now,      \* time.time(), in seconds
  cb,       \* the CircuitBreaker object: its parameters and its four fields
  cpc,      \* SpecBreaker: each caller's position in CircuitBreaker.call
  streak,   \* history: failed calls since the last successful one
  trials,   \* history: calls admitted since the breaker last became half-open
  client,   \* redis_manager.client is not None
  store,    \* the Redis server's keys: serialized value and expiry
  cfg,      \* the arguments of the redis_cache decorator
  w,        \* Spec: each coroutine's frame in redis_cache.wrapper
  stats,    \* cache_service.stats: hits, misses, errors, sets
  last,     \* the last operation called on RedisManager or CacheService
  kb,       \* SpecKeys: two calls of one producer and the keys built for them
  bypassing,  \* redis_manager's is_connected attribute and the BypassCache scopes
  san       \* SpecSanitize: one call of _sanitize_for_json and its recursion

callVars == <<cpc, streak, trials>>
wrapVars == <<client, store, cfg, w>>
svcVars == <<stats, last, kb, bypassing, san>>
vars ==
  <<now, cb, cpc, streak, trials, client, store, cfg, w, stats, last, kb,
    bypassing, san>>

Callers == 1..NumCallers
Coroutines == {"r1"}

\* CircuitBreaker.__init__
CircuitBreaker(threshold, timeout, max_calls) ==
  [failure_threshold |-> threshold,
   recovery_timeout |-> timeout,
   half_open_max_calls |-> max_calls,
   state |-> CLOSED,
   failure_count |-> 0,
   last_failure_time |-> 0,
   half_open_calls |-> 0]

\* the cooldown test without the recovery timeout
CooldownOver_NoTimeout(b, t) == t > b.last_failure_time

\* call, line 73: the cooldown is over
CooldownOver(b, t) == t > b.last_failure_time + b.recovery_timeout

\* the transition to half-open without the reset of half_open_calls
EnterHalfOpen_NoReset(b, t) ==
  IF b.state = OPEN /\ CooldownOver(b, t)
  THEN [b EXCEPT !.state = HALF_OPEN]
  ELSE b

\* call, lines 72-76: an open breaker whose cooldown is over becomes half-open
EnterHalfOpen(b, t) ==
  IF b.state = OPEN /\ CooldownOver(b, t)
  THEN [b EXCEPT !.state = HALF_OPEN, !.half_open_calls = 0]
  ELSE b

\* lines 89-90 as a lost update: the increment of a stale read of 0
CountHalfOpenCall_LostUpdate(b) ==
  IF b.state = HALF_OPEN THEN [b EXCEPT !.half_open_calls = 1] ELSE b

\* the quota test off by one
HalfOpenFull_OffByOne(b) == b.state = HALF_OPEN /\ b.half_open_calls > b.half_open_max_calls

\* call, line 83: the half-open breaker has let its quota of calls through
HalfOpenFull(b) == b.state = HALF_OPEN /\ b.half_open_calls >= b.half_open_max_calls

\* call, lines 89-90
CountHalfOpenCall(b) ==
  IF b.state = HALF_OPEN THEN [b EXCEPT !.half_open_calls = @ + 1] ELSE b

\* call, lines 72-90: the breaker after the admission part of a call at time t,
\* and whether func is called (admitted) or CircuitBreakerError is raised
Admission(b, t) ==
  IF b.state = OPEN /\ ~CooldownOver(b, t)
  THEN [cb |-> b, admitted |-> FALSE]
  ELSE LET b1 == EnterHalfOpen(b, t)
       IN IF HalfOpenFull(b1)
          THEN [cb |-> b1, admitted |-> FALSE]
          ELSE [cb |-> CountHalfOpenCall(b1), admitted |-> TRUE]

\* _on_success that leaves a half-open breaker half-open
on_success_StaysHalfOpen(b) ==
  IF b.state \in {HALF_OPEN, CLOSED}
  THEN [b EXCEPT !.failure_count = 0]
  ELSE b

\* _on_success closing the breaker from any state
on_success_ClosesOpen(b) == [b EXCEPT !.state = CLOSED, !.failure_count = 0]

\* _on_success closing the breaker without clearing failure_count
on_success_KeepCount(b) ==
  IF b.state = HALF_OPEN
  THEN [b EXCEPT !.state = CLOSED]
  ELSE IF b.state = CLOSED
       THEN [b EXCEPT !.failure_count = 0]
       ELSE b

\* _on_success
on_success(b) ==
  IF b.state = HALF_OPEN
  THEN [b EXCEPT !.state = CLOSED, !.failure_count = 0]
  ELSE IF b.state = CLOSED
       THEN [b EXCEPT !.failure_count = 0]
       ELSE b

\* _on_failure that clears failure_count when a trial call fails
on_failure_ReopenResets(b, t) ==
  LET b1 == [b EXCEPT !.last_failure_time = t]
  IN IF b1.state = CLOSED
     THEN LET b2 == [b1 EXCEPT !.failure_count = @ + 1]
          IN IF b2.failure_count >= b2.failure_threshold
             THEN [b2 EXCEPT !.state = OPEN]
             ELSE b2
     ELSE IF b1.state = HALF_OPEN
          THEN [b1 EXCEPT !.state = OPEN, !.failure_count = 0]
          ELSE b1

\* _on_failure opening one failure late
on_failure_Late(b, t) ==
  LET b1 == [b EXCEPT !.last_failure_time = t]
  IN IF b1.state = CLOSED
     THEN LET b2 == [b1 EXCEPT !.failure_count = @ + 1]
          IN IF b2.failure_count > b2.failure_threshold
             THEN [b2 EXCEPT !.state = OPEN]
             ELSE b2
     ELSE IF b1.state = HALF_OPEN
          THEN [b1 EXCEPT !.state = OPEN]
          ELSE b1

\* _on_failure recording the failure time only while closed
on_failure_StaleTime(b, t) ==
  IF b.state = CLOSED
  THEN LET b2 == [b EXCEPT !.last_failure_time = t, !.failure_count = @ + 1]
       IN IF b2.failure_count >= b2.failure_threshold
          THEN [b2 EXCEPT !.state = OPEN]
          ELSE b2
  ELSE IF b.state = HALF_OPEN
       THEN [b EXCEPT !.state = OPEN]
       ELSE b

\* _on_failure, at time t
on_failure(b, t) ==
  LET b1 == [b EXCEPT !.last_failure_time = t]
  IN IF b1.state = CLOSED
     THEN LET b2 == [b1 EXCEPT !.failure_count = @ + 1]
          IN IF b2.failure_count >= b2.failure_threshold
             THEN [b2 EXCEPT !.state = OPEN]
             ELSE b2
     ELSE IF b1.state = HALF_OPEN
          THEN [b1 EXCEPT !.state = OPEN]
          ELSE b1

\* the whole of CircuitBreaker.call at time t around a func whose outcome is r
\* (r.raised: func raises); invoked tells whether func was called
call(b, t, r) ==
  LET a == Admission(b, t)
  IN IF ~a.admitted
     THEN [cb |-> a.cb, invoked |-> FALSE, raised |-> TRUE,
           exc |-> "CircuitBreakerError"]
     ELSE IF r.raised
          THEN [cb |-> on_failure(a.cb, t), invoked |-> TRUE, raised |-> TRUE,
                exc |-> r.exc]
          ELSE [cb |-> on_success(a.cb), invoked |-> TRUE, raised |-> FALSE,
                exc |-> "none"]

\* redis_circuit, line 174
RedisHalfOpenMaxCalls == 1

\* ------------------------------------------------------- redis_manager.py
\* Python values (what a producer returns, what a cache read yields)
PyNone == [type |-> "NoneType", repr |-> "None"]
PyZero == [type |-> "int", repr |-> "0"]
PyStr == [type |-> "str", repr |-> "a"]
PyValues == {PyNone, PyZero, PyStr}

\* serialized values: JSON text; Nil is the server's reply for a missing key
Nil == [json |-> "nil", text |-> ""]

\* orjson.dumps
dumps(v) ==
  CASE v.type = "NoneType" -> [json |-> "null", text |-> "null"]
    [] v.type = "int" -> [json |-> "number", text |-> v.repr]
    [] v.type = "str" -> [json |-> "string", text |-> v.repr]

\* orjson.loads
loads(d) ==
  CASE d.json = "null" -> PyNone
    [] d.json = "number" -> [type |-> "int", repr |-> d.text]
    [] d.json = "string" -> [type |-> "str", repr |-> d.text]

\* an Optional[int]: None, or an integer
NoneInt == [none |-> TRUE, secs |-> 0]
IntOf(n) == [none |-> FALSE, secs |-> n]
\* Python's truth value of an Optional[int]
Truthy(x) == ~x.none /\ x.secs # 0

Keys == {"k1"}

\* the Redis server: a key holds serialized data, with or without an expiry time
NoEntry == [data |-> Nil, expires |-> FALSE, at |-> 0]
Live(e, t) == e.data # Nil /\ (e.expires => t < e.at)
\* GET key
RedisGET(st, k, t) == IF Live(st[k], t) THEN st[k].data ELSE Nil
\* SETEX whose key outlives its ttl by a second
RedisSETEX_Late(st, k, secs, d, t) ==
  [st EXCEPT ![k] = [data |-> d, expires |-> TRUE, at |-> t + secs + 1]]

\* SETEX key secs data
RedisSETEX(st, k, secs, d, t) ==
  [st EXCEPT ![k] = [data |-> d, expires |-> TRUE, at |-> t + secs]]
\* SET key data
RedisSET(st, k, d) == [st EXCEPT ![k] = [data |-> d, expires |-> FALSE, at |-> 0]]

\* What the network does to one operation of RedisManager, as the code sees it:
\*   "ok"          the ping of is_connected answers (at once, or after a
\*                 failed ping and a successful _connect) and the command runs
\*   "lost"        the ping fails and _connect fails: client becomes None
\*   "flap"        the ping fails, _connect succeeds, and the ping of line 88
\*                 raises: is_connected raises
\*   "cmd_failed"  the ping answers and the command raises: a connection error
\*                 followed by a successful _connect, or another exception
\*   "cmd_lost"    the ping answers, the command raises a connection error and
\*                 _connect fails: client becomes None
NetOutcomes == {"ok", "lost", "flap", "cmd_failed", "cmd_lost"}

\* RedisManager.is_connected
is_connected(cl, net) ==
  IF ~cl
  THEN [ret |-> FALSE, raised |-> FALSE, client |-> FALSE]
  ELSE CASE net = "lost" -> [ret |-> FALSE, raised |-> FALSE, client |-> FALSE]
         [] net = "flap" -> [ret |-> FALSE, raised |-> TRUE, client |-> TRUE]
         [] OTHER -> [ret |-> TRUE, raised |-> FALSE, client |-> TRUE]

\* RedisManager.get whose hit test is the value's truth (`if value:`)
manager_get_ZeroIsMiss(cl, st, k, t, net) ==
  LET c == is_connected(cl, net)
      data == RedisGET(st, k, t)
  IN IF c.raised
     THEN [ret |-> PyNone, raised |-> TRUE, exc |-> "ConnectionError",
           client |-> c.client]
     ELSE IF ~c.ret
          THEN [ret |-> PyNone, raised |-> FALSE, exc |-> "none",
                client |-> c.client]
          ELSE IF net = "ok"
               THEN [ret |-> IF data # Nil /\ loads(data) # PyZero
                             THEN loads(data) ELSE PyNone,
                     raised |-> FALSE, exc |-> "none", client |-> TRUE]
               ELSE [ret |-> PyNone, raised |-> FALSE, exc |-> "none",
                     client |-> (net # "cmd_lost")]

\* RedisManager.get
manager_get(cl, st, k, t, net) ==
  LET c == is_connected(cl, net)
      data == RedisGET(st, k, t)
  IN IF c.raised
     THEN [ret |-> PyNone, raised |-> TRUE, exc |-> "ConnectionError",
           client |-> c.client]
     ELSE IF ~c.ret
          THEN [ret |-> PyNone, raised |-> FALSE, exc |-> "none",
                client |-> c.client]
          ELSE IF net = "ok"
               THEN [ret |-> IF data # Nil THEN loads(data) ELSE PyNone,
                     raised |-> FALSE, exc |-> "none", client |-> TRUE]
               ELSE [ret |-> PyNone, raised |-> FALSE, exc |-> "none",
                     client |-> (net # "cmd_lost")]

\* timedelta(days=1), line 139
SecondsPerDay == 86400

\* datetime.utcnow() is the clock's second t and a microsecond field us
Micros == {0, 500000}
MicrosPerSecond == 1000000

\* RedisManager.set, lines 138-141: int((midnight - now).total_seconds()), the
\* whole seconds from the reading (t, us) to the next 00:00:00 UTC. The
\* timedelta midnight - now holds whole seconds and 0 <= microseconds <
\* 10^6; total_seconds() adds them and int() drops the fraction.
seconds_to_midnight(t, us) ==
  LET to_next == SecondsPerDay - (t % SecondsPerDay)
      seconds == IF us = 0 THEN to_next ELSE to_next - 1
      microseconds == IF us = 0 THEN 0 ELSE MicrosPerSecond - us
  IN seconds + (microseconds \div MicrosPerSecond)

\* RedisManager.set
manager_set(cl, st, k, v, ttl, invalidate_at_midnight, t, us, net) ==
  LET c == is_connected(cl, net)
      ttl1 == IF invalidate_at_midnight THEN IntOf(seconds_to_midnight(t, us))
              ELSE ttl
  IN IF c.raised
     THEN [ret |-> FALSE, raised |-> TRUE, exc |-> "ConnectionError",
           client |-> c.client, store |-> st]
     ELSE IF ~c.ret
          THEN [ret |-> FALSE, raised |-> FALSE, exc |-> "none",
                client |-> c.client, store |-> st]
          ELSE IF net = "ok"
               THEN [ret |-> TRUE, raised |-> FALSE, exc |-> "none",
                     client |-> TRUE,
                     store |-> IF Truthy(ttl1)
                               THEN RedisSETEX(st, k, ttl1.secs, dumps(v), t)
                               ELSE RedisSET(st, k, dumps(v))]
               ELSE [ret |-> FALSE, raised |-> FALSE, exc |-> "none",
                     client |-> (net # "cmd_lost"), store |-> st]

\* DEL key: the number of keys removed
RedisDEL(st, k, t) ==
  [n |-> IF Live(st[k], t) THEN 1 ELSE 0, store |-> [st EXCEPT ![k] = NoEntry]]
\* FLUSHDB
RedisFLUSHDB(st) == [k \in DOMAIN st |-> NoEntry]

\* A key's characters
KeyChars(k) ==
  CASE k = "k1" -> <<"k", "1">>
    [] k = "k2" -> <<"k", "2">>
    [] k = "j1" -> <<"j", "1">>

\* Redis glob matching of the characters s against the pattern p: * is any
\* run of characters, ? any one character
RECURSIVE GlobMatch(_, _)
GlobMatch(p, s) ==
  IF p = <<>> THEN s = <<>>
  ELSE IF Head(p) = "*"
       THEN GlobMatch(Tail(p), s) \/ (s # <<>> /\ GlobMatch(p, Tail(s)))
       ELSE /\ s # <<>>
            /\ Head(p) = "?" \/ Head(p) = Head(s)
            /\ GlobMatch(Tail(p), Tail(s))

\* KEYS that lists every key
RedisKEYS_All(st, p, t) == {k \in DOMAIN st : Live(st[k], t)}

\* KEYS pattern
RedisKEYS(st, p, t) ==
  {k \in DOMAIN st : Live(st[k], t) /\ GlobMatch(p, KeyChars(k))}

\* DEL key [key ...]: the number of keys removed
RedisDELs(st, ks, t) ==
  [n |-> Cardinality({k \in ks : Live(st[k], t)}),
   store |-> [k \in DOMAIN st |-> IF k \in ks THEN NoEntry ELSE st[k]]]

\* RedisManager.delete
manager_delete(cl, st, k, t, net) ==
  LET c == is_connected(cl, net)
      d == RedisDEL(st, k, t)
  IN IF c.raised
     THEN [ret |-> FALSE, raised |-> TRUE, client |-> c.client, store |-> st]
     ELSE IF ~c.ret
          THEN [ret |-> FALSE, raised |-> FALSE, client |-> c.client, store |-> st]
          ELSE IF net = "ok"
               THEN [ret |-> d.n # 0, raised |-> FALSE, client |-> TRUE,
                     store |-> d.store]
               ELSE [ret |-> FALSE, raised |-> FALSE,
                     client |-> (net # "cmd_lost"), store |-> st]

\* RedisManager.clear_all
manager_clear_all(cl, st, net) ==
  LET c == is_connected(cl, net)
  IN IF c.raised
     THEN [ret |-> FALSE, raised |-> TRUE, client |-> c.client, store |-> st]
     ELSE IF ~c.ret
          THEN [ret |-> FALSE, raised |-> FALSE, client |-> c.client, store |-> st]
          ELSE IF net = "ok"
               THEN [ret |-> TRUE, raised |-> FALSE, client |-> TRUE,
                     store |-> RedisFLUSHDB(st)]
               ELSE [ret |-> FALSE, raised |-> FALSE,
                     client |-> (net # "cmd_lost"), store |-> st]

\* ------------------------------------------------------ cache_service.py
\* CacheService.DEFAULT_TTL and get_ttl
get_ttl(strategy) ==
  CASE strategy = "no_cache" -> 0
    [] strategy = "short" -> 60
    [] strategy = "medium" -> 900
    [] strategy = "long" -> 3600
    [] strategy = "daily" -> 86400
    [] strategy = "weekly" -> 604800
    [] strategy = "monthly" -> 2592000
    [] strategy = "quarterly" -> 7776000
    [] OTHER -> 300

\* CacheService.get: returns the tuple (value, is_hit)
service_get(cl, st, sts, k, t, net) ==
  LET g == manager_get(cl, st, k, t, net)
  IN IF g.raised
     THEN [value |-> PyNone, is_hit |-> FALSE, raised |-> TRUE,
           client |-> g.client, stats |-> sts]
     ELSE IF g.ret # PyNone
          THEN [value |-> g.ret, is_hit |-> TRUE, raised |-> FALSE,
                client |-> g.client, stats |-> [sts EXCEPT !.hits = @ + 1]]
          ELSE [value |-> PyNone, is_hit |-> FALSE, raised |-> FALSE,
                client |-> g.client, stats |-> [sts EXCEPT !.misses = @ + 1]]

\* CacheService.set whose explicit ttl gives way to strategy DAILY
service_set_DailyFirst(cl, st, sts, k, v, strategy, ttl, t, us, net) ==
  LET strategy1 == IF strategy = "None" THEN "medium" ELSE strategy
      midnight == strategy = "daily"
      ttl1 == IF midnight THEN NoneInt
              ELSE IF ttl.none THEN IntOf(get_ttl(strategy1)) ELSE ttl
      s == manager_set(cl, st, k, v, ttl1, midnight, t, us, net)
  IN IF ttl.none /\ strategy1 = "no_cache"
     THEN [ret |-> TRUE, raised |-> FALSE, client |-> cl, store |-> st,
           stats |-> sts]
     ELSE IF s.raised
          THEN [ret |-> FALSE, raised |-> TRUE, client |-> s.client,
                store |-> s.store, stats |-> sts]
          ELSE [ret |-> s.ret, raised |-> FALSE, client |-> s.client,
                store |-> s.store,
                stats |-> IF s.ret THEN [sts EXCEPT !.sets = @ + 1]
                          ELSE [sts EXCEPT !.errors = @ + 1]]

\* CacheService.set that sends NO_CACHE to the store like any other strategy
service_set_NoCacheStores(cl, st, sts, k, v, strategy, ttl, t, us, net) ==
  LET strategy1 == IF strategy = "None" THEN "medium" ELSE strategy
      midnight == ttl.none /\ strategy1 = "daily"
      ttl1 == IF ~ttl.none THEN ttl
              ELSE IF midnight THEN NoneInt ELSE IntOf(get_ttl(strategy1))
      s == manager_set(cl, st, k, v, ttl1, midnight, t, us, net)
  IN IF s.raised
     THEN [ret |-> FALSE, raised |-> TRUE, client |-> s.client,
           store |-> s.store, stats |-> sts]
     ELSE [ret |-> s.ret, raised |-> FALSE, client |-> s.client,
           store |-> s.store,
           stats |-> IF s.ret THEN [sts EXCEPT !.sets = @ + 1]
                     ELSE [sts EXCEPT !.errors = @ + 1]]

\* CacheService.set; strategy is "None" or a CacheStrategy value
service_set(cl, st, sts, k, v, strategy, ttl, t, us, net) ==
  LET strategy1 == IF strategy = "None" THEN "medium" ELSE strategy
      midnight == ttl.none /\ strategy1 = "daily"
      ttl1 == IF ~ttl.none THEN ttl
              ELSE IF midnight THEN NoneInt ELSE IntOf(get_ttl(strategy1))
      s == manager_set(cl, st, k, v, ttl1, midnight, t, us, net)
  IN IF ttl.none /\ strategy1 = "no_cache"
     THEN [ret |-> TRUE, raised |-> FALSE, client |-> cl, store |-> st,
           stats |-> sts]
     ELSE IF s.raised
          THEN [ret |-> FALSE, raised |-> TRUE, client |-> s.client,
                store |-> s.store, stats |-> sts]
          ELSE [ret |-> s.ret, raised |-> FALSE, client |-> s.client,
                store |-> s.store,
                stats |-> IF s.ret THEN [sts EXCEPT !.sets = @ + 1]
                          ELSE [sts EXCEPT !.errors = @ + 1]]

\* CacheService.invalidate
service_invalidate(cl, st, sts, p, t, net) ==
  LET c == is_connected(cl, net)
      keys == RedisKEYS(st, p, t)
      d == RedisDELs(st, keys, t)
  IN IF c.raised
     THEN [ret |-> 0, raised |-> TRUE, client |-> c.client, store |-> st,
           stats |-> sts]
     ELSE IF ~c.ret
          THEN [ret |-> 0, raised |-> FALSE, client |-> c.client, store |-> st,
                stats |-> sts]
          ELSE IF net = "ok"
               THEN IF keys # {}
                    THEN [ret |-> d.n, raised |-> FALSE, client |-> TRUE,
                          store |-> d.store, stats |-> sts]
                    ELSE [ret |-> 0, raised |-> FALSE, client |-> TRUE,
                          store |-> st, stats |-> sts]
               ELSE [ret |-> 0, raised |-> FALSE, client |-> TRUE, store |-> st,
                     stats |-> [sts EXCEPT !.errors = @ + 1]]

\* ---------------------------------------------------- cache_decorator.py
\* The decorator's ttl argument: [kind |-> "none"], [kind |-> "int", secs |-> n],
\* [kind |-> "str", name |-> s] or [kind |-> "strategy", name |-> s].
\* CACHE_TTL_MAPPING, lines 25-41
CACHE_TTL_MAPPING ==
  [x \in {"30 seconds"} |-> 30] @@ [x \in {"1 minute"} |-> 60] @@
  [x \in {"5 minutes"} |-> 300] @@ [x \in {"15 minutes"} |-> 900] @@
  [x \in {"30 minutes"} |-> 1800] @@ [x \in {"1 hour"} |-> 3600] @@
  [x \in {"2 hours"} |-> 7200] @@ [x \in {"6 hours"} |-> 21600] @@
  [x \in {"12 hours"} |-> 43200] @@ [x \in {"1 day"} |-> 86400] @@
  [x \in {"2 days"} |-> 172800] @@ [x \in {"1 week"} |-> 604800] @@
  [x \in {"2 weeks"} |-> 1209600] @@ [x \in {"1 month"} |-> 2592000] @@
  [x \in {"3 months"} |-> 7776000]

\* wrapper, lines 101-109
ttl_seconds(c) ==
  CASE c.ttl.kind = "none" -> NoneInt
    [] c.ttl.kind = "int" -> IF c.ttl.secs # 0 THEN IntOf(c.ttl.secs) ELSE NoneInt
    [] c.ttl.kind = "str" -> IF c.ttl.name \in DOMAIN CACHE_TTL_MAPPING
                             THEN IntOf(CACHE_TTL_MAPPING[c.ttl.name]) ELSE NoneInt
    [] c.ttl.kind = "strategy" -> IntOf(get_ttl(c.ttl.name))

\* str.lower on the strings a bypass argument takes here
lower(x) == IF x = "YES" THEN "yes" ELSE x

\* the bypass comparison without lower()
should_bypass_cache_CaseSensitive(c, arg) ==
  IF c.bypass_cache_param /\ arg.how = "keyword"
  THEN IF arg.type = "bool"
       THEN arg.val = "True"
       ELSE IF arg.type = "str"
            THEN arg.val \in {"true", "t", "yes", "y", "1"}
            ELSE FALSE
  ELSE FALSE

\* wrapper, lines 89-95: the value the call gives the bypass parameter is arg
should_bypass_cache(c, arg) ==
  IF c.bypass_cache_param /\ arg.how = "keyword"
  THEN IF arg.type = "bool"
       THEN arg.val = "True"
       ELSE IF arg.type = "str"
            THEN lower(arg.val) \in {"true", "t", "yes", "y", "1"}
            ELSE FALSE
  ELSE FALSE

\* The value a call gives the bypass parameter: not given, given by keyword,
\* or given by position (then it is in args, and line 89 looks in kwargs)
Absent == [how |-> "absent", type |-> "NoneType", val |-> "None"]
BypassArgs ==
  {Absent,
   [how |-> "keyword", type |-> "bool", val |-> "True"],
   [how |-> "keyword", type |-> "str", val |-> "YES"],
   [how |-> "keyword", type |-> "int", val |-> "1"],
   [how |-> "positional", type |-> "bool", val |-> "True"]}

\* A coroutine's frame in wrapper:
\*   pc      "idle", "bypass" (awaiting func at line 99), "producing" (awaiting
\*           func at line 164) or "done"
\*   key     cache_key;  arg  the bypass parameter's value in this call
\*   up      whether the manager holds a client and the server answers at the
\*           time of the call, so that a GET sent now is executed
\*   get     what get_from_cache did: "skipped", "rejected" (CircuitBreakerError,
\*           RedisManager.get not called), "error" (RedisManager.get raised),
\*           "absent" (it returned None) or "hit"
\*   set     what set_in_cache did: "skipped", "rejected", "error", "false", "true"
\*   produced  how many times func was called
\*   func    what func did: "none" (not called, or not back yet), "returned"
\*           or "raised";  result  what func returned
\*   out     "returned", or the exception the wrapper raised;  ret  the value
\*           it returned
\*   overtaken  history: while this call was awaiting func, an invalidation
\*           or a delete that covers its key got to the server and returned
Idle ==
  [pc |-> "idle", key |-> "k1", arg |-> Absent, up |-> FALSE, get |-> "skipped",
   set |-> "skipped", produced |-> 0, func |-> "none", result |-> PyNone,
   out |-> "none", ret |-> PyNone, overtaken |-> FALSE]

\* wrapper, lines 88-164: from the call to the first await or return
wrapper_lookup(c, b, cl, st, k, arg, t, net) ==
  LET g == manager_get(cl, st, k, t, net)
      r == call(b, t, g)
      up == cl /\ net = "ok"
      f0 == [Idle EXCEPT !.key = k, !.arg = arg, !.up = up]
  IN IF should_bypass_cache(c, arg)
     THEN [cb |-> b, client |-> cl,
           frame |-> [Idle EXCEPT !.arg = arg, !.up = up, !.pc = "bypass",
                                  !.produced = 1]]
     ELSE IF r.raised
          THEN [cb |-> r.cb,
                client |-> IF r.invoked THEN g.client ELSE cl,
                frame |-> IF c.disable_on_error
                          THEN [f0 EXCEPT !.pc = "producing", !.produced = 1,
                                          !.get = IF r.invoked THEN "error" ELSE "rejected"]
                          ELSE [f0 EXCEPT !.pc = "done", !.out = r.exc,
                                          !.get = IF r.invoked THEN "error" ELSE "rejected"]]
          ELSE [cb |-> r.cb,
                client |-> g.client,
                frame |-> IF g.ret # PyNone
                          THEN [f0 EXCEPT !.pc = "done", !.get = "hit",
                                          !.out = "returned", !.ret = g.ret]
                          ELSE [f0 EXCEPT !.pc = "producing", !.produced = 1,
                                          !.get = "absent"]]

\* wrapper, lines 165-198, without the try/except around set_in_cache
wrapper_store_Propagates(c, b, cl, st, f, v, t, us, net) ==
  LET s == manager_set(cl, st, f.key, v, ttl_seconds(c), c.invalidate_at_midnight,
                       t, us, net)
      r == call(b, t, s)
      f1 == [f EXCEPT !.pc = "done", !.func = "returned", !.result = v,
                      !.out = "returned", !.ret = v]
  IN IF v = PyNone /\ ~c.cache_null_responses
     THEN [cb |-> b, client |-> cl, store |-> st, frame |-> f1]
     ELSE [cb |-> r.cb,
           client |-> IF r.invoked THEN s.client ELSE cl,
           store |-> IF r.invoked THEN s.store ELSE st,
           frame |-> IF r.raised
                     THEN [f EXCEPT !.pc = "done", !.func = "returned",
                                    !.result = v, !.out = r.exc,
                                    !.set = IF r.invoked THEN "error" ELSE "rejected"]
                     ELSE [f1 EXCEPT !.set = IF s.ret THEN "true" ELSE "false"]]

\* wrapper, lines 165-198, that never stores None
wrapper_store_SkipsNone(c, b, cl, st, f, v, t, us, net) ==
  LET s == manager_set(cl, st, f.key, v, ttl_seconds(c), c.invalidate_at_midnight,
                       t, us, net)
      r == call(b, t, s)
      f1 == [f EXCEPT !.pc = "done", !.func = "returned", !.result = v,
                      !.out = "returned", !.ret = v]
  IN IF v = PyNone
     THEN [cb |-> b, client |-> cl, store |-> st, frame |-> f1]
     ELSE [cb |-> r.cb,
           client |-> IF r.invoked THEN s.client ELSE cl,
           store |-> IF r.invoked THEN s.store ELSE st,
           frame |-> [f1 EXCEPT !.set = IF ~r.invoked THEN "rejected"
                                        ELSE IF r.raised THEN "error"
                                        ELSE IF s.ret THEN "true" ELSE "false"]]

\* wrapper, lines 165-198, that leaves a live entry of the key as it is
wrapper_store_FirstWins(c, b, cl, st, f, v, t, us, net) ==
  LET s == manager_set(cl, st, f.key, v, ttl_seconds(c), c.invalidate_at_midnight,
                       t, us, net)
      r == call(b, t, s)
      f1 == [f EXCEPT !.pc = "done", !.func = "returned", !.result = v,
                      !.out = "returned", !.ret = v]
  IN IF v = PyNone /\ ~c.cache_null_responses
     THEN [cb |-> b, client |-> cl, store |-> st, frame |-> f1]
     ELSE [cb |-> r.cb,
           client |-> IF r.invoked THEN s.client ELSE cl,
           store |-> IF r.invoked /\ ~Live(st[f.key], t) THEN s.store ELSE st,
           frame |-> [f1 EXCEPT !.set = IF ~r.invoked THEN "rejected"
                                        ELSE IF r.raised THEN "error"
                                        ELSE IF s.ret THEN "true" ELSE "false"]]

\* wrapper, lines 165-198: func returned v at line 164
wrapper_store(c, b, cl, st, f, v, t, us, net) ==
  LET s == manager_set(cl, st, f.key, v, ttl_seconds(c), c.invalidate_at_midnight,
                       t, us, net)
      r == call(b, t, s)
      f1 == [f EXCEPT !.pc = "done", !.func = "returned", !.result = v,
                      !.out = "returned", !.ret = v]
  IN IF v = PyNone /\ ~c.cache_null_responses
     THEN [cb |-> b, client |-> cl, store |-> st, frame |-> f1]
     ELSE [cb |-> r.cb,
           client |-> IF r.invoked THEN s.client ELSE cl,
           store |-> IF r.invoked THEN s.store ELSE st,
           frame |-> [f1 EXCEPT !.set = IF ~r.invoked THEN "rejected"
                                        ELSE IF r.raised THEN "error"
                                        ELSE IF s.ret THEN "true" ELSE "false"]]

\* The decorator's arguments a run is made with
Config(ttl, midnight, doe, cnr, bp) ==
  [ttl |-> ttl, invalidate_at_midnight |-> midnight, disable_on_error |-> doe,
   cache_null_responses |-> cnr, bypass_cache_param |-> bp]
TtlInt(n) == [kind |-> "int", secs |-> n, name |-> ""]
TtlNone == [kind |-> "none", secs |-> 0, name |-> ""]
TtlStrategy(name) == [kind |-> "strategy", secs |-> 0, name |-> name]
Configs ==
  {Config(TtlInt(MaxTtl), FALSE, TRUE, FALSE, TRUE),
   Config(TtlInt(MaxTtl), FALSE, TRUE, TRUE, TRUE),
   Config(TtlNone, TRUE, FALSE, FALSE, TRUE),
   Config(TtlNone, FALSE, TRUE, FALSE, FALSE)}

\* BypassCache.__enter__ of the instance of the with statement s
enter(b, s) ==
  [b EXCEPT !.scope[s] = [pc |-> "in", original_is_connected |-> b.is_connected,
                          on_entry |-> b.is_connected, exit |-> "none"],
            !.is_connected = "lambda"]

\* BypassCache.__exit__ that restores only when the body raised nothing
exit_SkipsOnError(b, s, exc_type) ==
  [b EXCEPT !.is_connected =
                IF b.scope[s].original_is_connected # "None" /\ exc_type = "None"
                THEN b.scope[s].original_is_connected ELSE @,
            !.scope[s].pc = "out",
            !.scope[s].exit = IF exc_type = "None" THEN "normally" ELSE "error"]

\* BypassCache.__exit__; it returns None, so an error of the body propagates
exit(b, s, exc_type) ==
  [b EXCEPT !.is_connected =
                IF b.scope[s].original_is_connected # "None"
                THEN b.scope[s].original_is_connected ELSE @,
            !.scope[s].pc = "out",
            !.scope[s].exit = IF exc_type = "None" THEN "normally" ELSE "error"]

\* The manager seen through its attribute is_connected: under the lambda of
\* line 223 every operation takes its `if not self.is_connected()` return,
\* which is the one it takes without a client, and leaves the client alone
attr_client(b, cl) == IF b.is_connected = "lambda" THEN FALSE ELSE cl
attr_result(b, cl, r) == IF b.is_connected = "lambda" THEN [r EXCEPT !.client = cl] ELSE r

\* --------------------- yahooquery_data_manager.py, yfinance_data_manager.py
\* _sanitize_for_json(obj, depth=0, max_depth=10)
max_depth == 10
\* The depth of recursion at which the interpreter raises RecursionError
\* (sys.getrecursionlimit(), 1000 frames by default), scaled down
RecursionLimit == 14
\* The inputs: a float inside 0..MaxNesting lists, and the list that holds
\* itself (cyclic)
MaxNesting == 13

\* the object that the call at this depth is given is a list
IsList(s) == s.cyclic \/ s.depth < s.nesting

\* yahooquery's _sanitize_for_json: the innermost call runs; the calls above
\* it return the list of what it returns
yq_sanitize_for_json(s) ==
  IF s.depth > max_depth
  THEN [s EXCEPT !.status = "returned", !.out = "str"]
  ELSE IF IsList(s)
       THEN IF s.depth + 1 >= RecursionLimit
            THEN [s EXCEPT !.status = "returned", !.out = "str"]
            ELSE [s EXCEPT !.depth = @ + 1]
       ELSE [s EXCEPT !.status = "returned", !.out = "float"]

\* yfinance's _sanitize_for_json: the innermost call runs; a RecursionError
\* passes through the calls above it
yf_sanitize_for_json(s) ==
  IF IsList(s)
  THEN IF s.depth + 1 >= RecursionLimit
       THEN [s EXCEPT !.status = "raised", !.out = "RecursionError"]
       ELSE [s EXCEPT !.depth = @ + 1]
  ELSE [s EXCEPT !.status = "returned", !.out = "float"]

\* ------------------------------------------------------- key generation
\* The producer: def func(symbol, period=0). A call gives it positional
\* values args and keyword arguments kwargs, a sequence of [name, value] in the
\* order they are written.
Params == <<"symbol", "period">>
Default(name) == PyZero
Required == {"symbol"}
Scalars == {PyNone, PyZero, PyStr}
\* the order of Python's string comparison on the parameter names
NameRank(name) == CASE name = "period" -> 1 [] name = "symbol" -> 2
\* str(value)
Str(v) == v.repr

\* the names a call supplies
Supplied(c) ==
  {Params[i] : i \in 1..Len(c.args)} \cup {c.kwargs[i].name : i \in 1..Len(c.kwargs)}
\* the calls Python accepts, with values from the given set: no parameter
\* given twice, every required one given
FuncCallsOf(values) ==
  {c \in [args : UNION {[1..n -> values] : n \in 0..Len(Params)},
          kwargs : UNION {[1..n -> [name : {Params[i] : i \in 1..Len(Params)},
                                     value : values]] : n \in 0..Len(Params)}] :
     /\ \A i \in 1..Len(c.kwargs) :
          /\ \A j \in 1..Len(c.args) : c.kwargs[i].name # Params[j]
          /\ \A j \in 1..Len(c.kwargs) : i # j => c.kwargs[i].name # c.kwargs[j].name
     /\ Required \subseteq Supplied(c)}
\* the calls Python accepts
FuncCalls == FuncCallsOf(Scalars)

\* wrapper, lines 116-118: arg_values.items() in the dict's order
arg_values(c) ==
  [i \in 1..Len(c.args) |-> [name |-> Params[i], value |-> c.args[i]]] \o c.kwargs

\* the items in the order they were put into the dict
sorted_Unsorted(items) == items

\* sorted(items): by name
RECURSIVE sorted(_)
sorted(items) ==
  IF items = <<>> THEN <<>>
  ELSE LET i == CHOOSE i \in 1..Len(items) :
                  \A j \in 1..Len(items) :
                    NameRank(items[i].name) <= NameRank(items[j].name)
           rest == [j \in 1..(Len(items) - 1) |->
                      IF j < i THEN items[j] ELSE items[j + 1]]
       IN <<items[i]>> \o sorted(rest)

\* ":".join(parts); a string is the sequence of its pieces
RECURSIVE join(_)
join(parts) ==
  IF parts = <<>> THEN <<>>
  ELSE IF Len(parts) = 1 THEN parts[1]
       ELSE parts[1] \o <<":">> \o join(Tail(parts))

\* wrapper, lines 125-141: the key parts of the sorted items of scalars
RECURSIVE wrapper_parts(_, _)
wrapper_parts(items, bypass) ==
  IF items = <<>> THEN <<>>
  ELSE LET it == Head(items)
       IN IF it.name \in {"self", "kwargs", "args", bypass}
             \/ it.value = PyNone
          THEN wrapper_parts(Tail(items), bypass)
          ELSE <<(<<it.name, ":", Str(it.value)>>)>>
                 \o wrapper_parts(Tail(items), bypass)

\* wrapper, lines 116-143: cache_key of the call c of func
wrapper_key(prefix, func, bypass, c) ==
  join(<<(<<prefix>>), (<<func>>)>> \o wrapper_parts(sorted(arg_values(c)), bypass))

\* CacheService.generate_cache_key, lines 116-136, for scalars that are not
\* bool
RECURSIVE service_parts(_)
service_parts(items) ==
  IF items = <<>> THEN <<>>
  ELSE LET it == Head(items)
       IN IF it.value = PyNone
          THEN service_parts(Tail(items))
          ELSE <<(<<it.name, ":", Str(it.value)>>)>> \o service_parts(Tail(items))

\* CacheService.generate_cache_key(prefix, params); params is a dict, here the
\* sequence of its items in the order they were inserted
generate_cache_key(prefix, params) ==
  join(<<(<<prefix>>)>> \o service_parts(sorted(params)))

\* The with statements of BypassCache() that the requests run
Scopes == {"s1", "s2"}
\* BypassCache.__init__, and a with statement that is not being run
\*   pc  "out" or "in" the body;  original_is_connected  the instance's field
\*   on_entry  history: the attribute of redis_manager when the scope was entered
\*   exit  history: how its last run left the body, "normally" or "error"
OutOfScope ==
  [pc |-> "out", original_is_connected |-> "None", on_entry |-> "None",
   exit |-> "none"]
\* redis_manager.is_connected is the method of the class, no scope entered
NoScopes == [is_connected |-> "method", scope |-> [s \in Scopes |-> OutOfScope]]

\* no call of a sanitizer
NoSanitize ==
  [fn |-> "none", nesting |-> 0, cyclic |-> FALSE, depth |-> 0,
   status |-> "none", out |-> "none"]

\* no calls drawn
NoCalls == [c1 |-> <<>>, c2 |-> <<>>, built |-> "none", k1 |-> <<>>, k2 |-> <<>>]

\* CacheService.__init__ at the clock reading t
CacheService(t) ==
  [hits |-> 0, misses |-> 0, errors |-> 0, sets |-> 0, last_stats_reset |-> t]

\* CacheService.reset_stats that leaves the counter of errors as it is
reset_stats_KeepsErrors(sts, t) ==
  [hits |-> 0, misses |-> 0, errors |-> sts.errors, sets |-> 0,
   last_stats_reset |-> t]

\* CacheService.reset_stats at the clock reading t
reset_stats(sts, t) ==
  [hits |-> 0, misses |-> 0, errors |-> 0, sets |-> 0, last_stats_reset |-> t]

\* CacheService.get_stats, line 230: uptime_seconds
uptime_seconds(sts, t) == t - sts.last_stats_reset

\* The last operation called on RedisManager or CacheService and how it ended
\*   op    "none", "get", "set", "delete", "clear_all" (RedisManager),
\*         "svc_get", "svc_set", "invalidate" (CacheService)
\*   key, value, ttl, midnight, strategy, pattern   its arguments, kept when
\*         the operation got to the server (up) or returned without calling
\*         the manager
\*   at    the clock when it was called;  us  the microseconds datetime.utcnow()
\*         read in it
\*   up    whether the manager held a client and the server answered
\*   follows  for a get that got to the server right after a set of its key
\*         with a ttl that did: "fresh" (same clock reading), "aged" (later,
\*         less than ttl seconds) or "expired"; else "none"
\*   raised  whether it raised to its caller;  ret  what it returned
\*         (a value), flag (a bool) or count (an int)
NoOp ==
  [op |-> "none", key |-> "k1", value |-> PyNone, ttl |-> NoneInt,
   midnight |-> FALSE, strategy |-> "None", pattern |-> <<>>, at |-> 0, us |-> 0,
   up |-> FALSE, follows |-> "none", raised |-> FALSE, ret |-> PyNone,
   flag |-> FALSE, count |-> 0]

\* the clock readings a run starts from: 00:00:00 and 23:59:58 UTC of day 0
ClockStarts == {0, SecondsPerDay - 2}

\* ------------------------------------------- SpecBreaker: callers of call()
\* A caller is idle, inside func ("in_func"), or back from its last call, which
\* returned func's result ("returned"), raised func's exception ("raised") or
\* raised CircuitBreakerError without calling func ("rejected").
InitBreaker ==
  /\ now = 0
  /\ \E th \in 1..MaxThreshold, to \in 1..MaxTimeout, mc \in 1..MaxHalfOpen :
       cb = CircuitBreaker(th, to, mc)
  /\ cpc = [c \in Callers |-> "idle"]
  /\ streak = 0
  /\ trials = 0
  /\ client = TRUE
  /\ store = [k \in Keys |-> NoEntry]
  /\ cfg = Config(TtlNone, FALSE, TRUE, FALSE, FALSE)
  /\ w = [p \in Coroutines |-> Idle]
  /\ stats = CacheService(now)
  /\ last = NoOp
  /\ kb = NoCalls
  /\ bypassing = NoScopes
  /\ san = NoSanitize

\* the clock advances, and the server drops the keys that expire
Tick ==
  /\ \E s \in ClockStarts : s <= now /\ now < s + MaxTime
  /\ now' = now + 1
  /\ store' = [k \in DOMAIN store |-> IF Live(store[k], now + 1) THEN store[k] ELSE NoEntry]
  /\ UNCHANGED <<cb, callVars, client, cfg, w, svcVars>>

\* call, lines 72-90, by a caller that is not inside a call
BeginCall(c) ==
  /\ cpc[c] # "in_func"
  /\ LET a == Admission(cb, now)
     IN /\ cb' = a.cb
        /\ cpc' = [cpc EXCEPT ![c] = IF a.admitted THEN "in_func" ELSE "rejected"]
        /\ trials' = IF cb.state = OPEN /\ a.cb.state = HALF_OPEN
                     THEN (IF a.admitted THEN 1 ELSE 0)
                     ELSE IF a.cb.state = HALF_OPEN /\ a.admitted
                          THEN trials + 1
                          ELSE trials
  /\ UNCHANGED <<now, streak, wrapVars, svcVars>>

\* call, lines 93-95: func returns
FuncReturns(c) ==
  /\ cpc[c] = "in_func"
  /\ cb' = on_success(cb)
  /\ cpc' = [cpc EXCEPT ![c] = "returned"]
  /\ streak' = 0
  /\ UNCHANGED <<now, trials, wrapVars, svcVars>>

\* call, lines 96-98: func raises, and call raises the same exception
FuncRaises(c) ==
  /\ cpc[c] = "in_func"
  /\ cb' = on_failure(cb, now)
  /\ cpc' = [cpc EXCEPT ![c] = "raised"]
  /\ streak' = IF streak < MaxThreshold THEN streak + 1 ELSE streak
  /\ UNCHANGED <<now, trials, wrapVars, svcVars>>

NextBreaker ==
  \/ Tick
  \/ \E c \in Callers : BeginCall(c)
  \/ \E c \in Callers : FuncReturns(c)
  \/ \E c \in Callers : FuncRaises(c)

SpecBreaker == InitBreaker /\ [][NextBreaker]_vars

\* ------------------------- SpecStore: callers of the RedisManager singleton
\* the ttl arguments given to set: None, 0, and 1..MaxTtl seconds
Ttls == {NoneInt} \cup {IntOf(n) : n \in 0..MaxTtl}

\* the record of an operation called now
Called(op, net) ==
  [NoOp EXCEPT !.op = op, !.at = now, !.up = (client /\ net = "ok")]
\* its arguments a, kept when it got to the server
Args(c, a) == IF c.up THEN a ELSE c

InitStore ==
  /\ now = SecondsPerDay - 2
  /\ cb = CircuitBreaker(MaxThreshold - 1, MaxTimeout, RedisHalfOpenMaxCalls)
  /\ cpc = [c \in Callers |-> "idle"]
  /\ streak = 0
  /\ trials = 0
  /\ client \in BOOLEAN
  /\ store = [k \in Keys |-> NoEntry]
  /\ cfg = Config(TtlNone, FALSE, TRUE, FALSE, FALSE)
  /\ w = [p \in Coroutines |-> Idle]
  /\ stats = CacheService(now)
  /\ last = NoOp
  /\ kb = NoCalls
  /\ bypassing = NoScopes
  /\ san = NoSanitize

\* how a get of k called now follows the operation before it
Follows(k) ==
  IF last.op = "set" /\ last.up /\ last.key = k /\ ~last.midnight /\ Truthy(last.ttl)
  THEN IF now = last.at THEN "fresh"
       ELSE IF now < last.at + last.ttl.secs THEN "aged" ELSE "expired"
  ELSE "none"

\* redis_manager.get(k)
ManagerGet ==
  /\ \E k \in Keys, net \in NetOutcomes :
       LET r == manager_get(client, store, k, now, net)
           c == Called("get", net)
       IN /\ client' = r.client
          /\ last' = [Args(c, [c EXCEPT !.key = k, !.follows = Follows(k)])
                        EXCEPT !.raised = r.raised, !.ret = r.ret]
  /\ UNCHANGED <<now, cb, callVars, store, cfg, w, stats, kb, bypassing, san>>

\* redis_manager.set(k, v, ttl, invalidate_at_midnight)
ManagerSet ==
  /\ \E k \in Keys, v \in PyValues, ttl \in Ttls, midnight \in BOOLEAN,
        us \in Micros, net \in NetOutcomes :
       LET r == manager_set(client, store, k, v, ttl, midnight, now, us, net)
           c == Called("set", net)
       IN /\ client' = r.client
          /\ store' = r.store
          /\ last' = [Args(c, [c EXCEPT !.key = k, !.value = v, !.ttl = ttl,
                                        !.midnight = midnight,
                                        !.us = IF midnight THEN us ELSE 0])
                        EXCEPT !.raised = r.raised, !.flag = r.ret]
  /\ UNCHANGED <<now, cb, callVars, cfg, w, stats, kb, bypassing, san>>

\* redis_manager.delete(k)
ManagerDelete ==
  /\ \E k \in Keys, net \in NetOutcomes :
       LET r == manager_delete(client, store, k, now, net)
           c == Called("delete", net)
       IN /\ client' = r.client
          /\ store' = r.store
          /\ last' = [Args(c, [c EXCEPT !.key = k])
                        EXCEPT !.raised = r.raised, !.flag = r.ret]
  /\ UNCHANGED <<now, cb, callVars, cfg, w, stats, kb, bypassing, san>>

\* redis_manager.clear_all()
ManagerClearAll ==
  /\ \E net \in NetOutcomes :
       LET r == manager_clear_all(client, store, net)
       IN /\ client' = r.client
          /\ store' = r.store
          /\ last' = [Called("clear_all", net) EXCEPT !.raised = r.raised,
                                                      !.flag = r.ret]
  /\ UNCHANGED <<now, cb, callVars, cfg, w, stats, kb, bypassing, san>>

NextStore ==
  \/ Tick
  \/ ManagerGet
  \/ ManagerSet
  \/ ManagerDelete
  \/ ManagerClearAll

SpecStore == InitStore /\ [][NextStore]_vars

\* ------------------------ SpecService: callers of the CacheService singleton
\* the strategy arguments given to CacheService.set
Strategies == {"None", "daily", "no_cache"}
\* the events the statistics have counted
Counted(sts) == sts.hits + sts.misses + sts.errors + sts.sets

InitService ==
  /\ now = SecondsPerDay - 2
  /\ cb = CircuitBreaker(MaxThreshold - 1, MaxTimeout, RedisHalfOpenMaxCalls)
  /\ cpc = [c \in Callers |-> "idle"]
  /\ streak = 0
  /\ trials = 0
  /\ client \in BOOLEAN
  /\ store = [k \in Keys |-> NoEntry]
  /\ cfg = Config(TtlNone, FALSE, TRUE, FALSE, FALSE)
  /\ w = [p \in Coroutines |-> Idle]
  /\ stats = CacheService(now)
  /\ last = NoOp
  /\ kb = NoCalls
  /\ bypassing = NoScopes
  /\ san = NoSanitize

\* cache_service.get(k)
ServiceGet ==
  /\ Counted(stats) < MaxCount
  /\ \E k \in Keys, net \in NetOutcomes :
       LET r == service_get(client, store, stats, k, now, net)
           c == Called("svc_get", net)
       IN /\ client' = r.client
          /\ stats' = r.stats
          /\ last' = [Args(c, [c EXCEPT !.key = k])
                        EXCEPT !.raised = r.raised, !.ret = r.value,
                               !.flag = r.is_hit]
  /\ UNCHANGED <<now, cb, callVars, store, cfg, w, kb, bypassing, san>>

\* cache_service.set(k, v, strategy, ttl) with arguments from the given sets
ServiceSetOf(values, strategies, ttls) ==
  /\ Counted(stats) < MaxCount
  /\ \E k \in Keys, v \in values, strategy \in strategies,
        ttl \in ttls, us \in Micros, net \in NetOutcomes :
       LET r == service_set(client, store, stats, k, v, strategy, ttl, now, us,
                            net)
           c == Called("svc_set", net)
           midnight == ttl.none /\ strategy = "daily"
           a == [c EXCEPT !.key = k, !.value = v, !.ttl = ttl,
                          !.strategy = strategy,
                          !.us = IF midnight THEN us ELSE 0]
       IN /\ client' = r.client
          /\ store' = r.store
          /\ stats' = r.stats
          /\ last' = [(IF ttl.none /\ strategy = "no_cache" THEN a ELSE Args(c, a))
                        EXCEPT !.raised = r.raised, !.flag = r.ret]
  /\ UNCHANGED <<now, cb, callVars, cfg, w, kb, bypassing, san>>

\* cache_service.set(k, v, strategy, ttl)
ServiceSet == ServiceSetOf({PyNone, PyStr}, Strategies, Ttls)

NextService ==
  \/ Tick
  \/ ServiceGet
  \/ ServiceSet

SpecService == InitService /\ [][NextService]_vars

\* ------------- SpecAdmin: CacheService and the endpoints of api/v1/redis
InitAdmin ==
  /\ now = 0
  /\ cb = CircuitBreaker(MaxThreshold - 1, MaxTimeout, RedisHalfOpenMaxCalls)
  /\ cpc = [c \in Callers |-> "idle"]
  /\ streak = 0
  /\ trials = 0
  /\ client = TRUE
  /\ store = [k \in Keys |-> NoEntry]
  /\ cfg = Config(TtlNone, FALSE, TRUE, FALSE, FALSE)
  /\ w = [p \in Coroutines |-> Idle]
  /\ stats = CacheService(now)
  /\ last = NoOp
  /\ kb = NoCalls
  /\ bypassing = NoScopes
  /\ san = NoSanitize

\* POST /v1/cache/stats/reset: reset_cache_stats
ResetCacheStats ==
  /\ stats' = reset_stats(stats, now)
  /\ last' = [NoOp EXCEPT !.op = "reset_stats", !.at = now]
  /\ UNCHANGED <<now, cb, callVars, client, store, cfg, w, kb, bypassing, san>>

\* POST /v1/cache/clear: clear_cache; a raise of is_connected or an
\* HTTPException is raised to the client of the endpoint
ClearCache ==
  /\ \E net1 \in NetOutcomes, net \in NetOutcomes :
       LET c == is_connected(client, net1)
           r == manager_clear_all(c.client, store, net)
           op == [NoOp EXCEPT !.op = "clear_cache", !.at = now]
       IN IF c.raised \/ ~c.ret
          THEN /\ client' = c.client
               /\ last' = [op EXCEPT !.raised = TRUE]
               /\ UNCHANGED <<store, stats>>
          ELSE /\ client' = r.client
               /\ store' = r.store
               /\ stats' = IF ~r.raised /\ r.ret THEN reset_stats(stats, now)
                           ELSE stats
               /\ last' = [op EXCEPT !.up = (net = "ok"),
                                     !.raised = (r.raised \/ ~r.ret),
                                     !.flag = (~r.raised /\ r.ret)]
  /\ UNCHANGED <<now, cb, callVars, cfg, w, kb, bypassing, san>>

\* cache_service.set(k, v) and cache_service.set(k, v, ttl=MaxTtl)
AdminSet == ServiceSetOf({PyStr}, {"None"}, {NoneInt, IntOf(MaxTtl)})

NextAdmin ==
  \/ Tick
  \/ ServiceGet
  \/ AdminSet
  \/ ResetCacheStats
  \/ ClearCache

SpecAdmin == InitAdmin /\ [][NextAdmin]_vars

\* ------------- SpecBypass: requests that run `with BypassCache():` bodies
InitBypass ==
  /\ now = 0
  /\ cb = CircuitBreaker(MaxThreshold - 1, MaxTimeout, RedisHalfOpenMaxCalls)
  /\ cpc = [c \in Callers |-> "idle"]
  /\ streak = 0
  /\ trials = 0
  /\ client = TRUE
  /\ store = [k \in Keys |-> NoEntry]
  /\ cfg = Config(TtlNone, FALSE, TRUE, FALSE, FALSE)
  /\ w = [p \in Coroutines |-> Idle]
  /\ stats = CacheService(now)
  /\ last = NoOp
  /\ kb = NoCalls
  /\ bypassing = NoScopes
  /\ san = NoSanitize

\* a request gets to `with BypassCache():`
ScopeEnter(s) ==
  /\ bypassing.scope[s].pc = "out"
  /\ bypassing' = enter(bypassing, s)
  /\ UNCHANGED <<now, cb, callVars, wrapVars, stats, last, kb, san>>

\* the body of the with statement comes to its end
ScopeReturns(s) ==
  /\ bypassing.scope[s].pc = "in"
  /\ bypassing' = exit(bypassing, s, "None")
  /\ UNCHANGED <<now, cb, callVars, wrapVars, stats, last, kb, san>>

\* the body of the with statement raises
ScopeRaises(s) ==
  /\ bypassing.scope[s].pc = "in"
  /\ bypassing' = exit(bypassing, s, "Exception")
  /\ UNCHANGED <<now, cb, callVars, wrapVars, stats, last, kb, san>>

\* redis_manager.get(k) by a request, inside a body or not, with the network
\* outcome from the given set
ScopedGetOf(nets) ==
  /\ \E k \in Keys, net \in nets :
       LET cl == attr_client(bypassing, client)
           r == attr_result(bypassing, client, manager_get(cl, store, k, now, net))
           c == [NoOp EXCEPT !.op = "get", !.at = now, !.up = (cl /\ net = "ok")]
       IN /\ client' = r.client
          /\ last' = [Args(c, [c EXCEPT !.key = k])
                        EXCEPT !.raised = r.raised, !.ret = r.ret]
  /\ UNCHANGED <<now, cb, callVars, store, cfg, w, stats, kb, bypassing, san>>

\* redis_manager.set(k, "a") by a request, inside a body or not, with the
\* network outcome from the given set
ScopedSetOf(nets) ==
  /\ \E k \in Keys, net \in nets :
       LET cl == attr_client(bypassing, client)
           r == attr_result(bypassing, client,
                            manager_set(cl, store, k, PyStr, NoneInt, FALSE, now,
                                        0, net))
           c == [NoOp EXCEPT !.op = "set", !.at = now, !.up = (cl /\ net = "ok")]
       IN /\ client' = r.client
          /\ store' = r.store
          /\ last' = [Args(c, [c EXCEPT !.key = k, !.value = PyStr])
                        EXCEPT !.raised = r.raised, !.flag = r.ret]
  /\ UNCHANGED <<now, cb, callVars, cfg, w, stats, kb, bypassing, san>>

\* redis_manager.get(k) by a request, inside a body or not
ScopedGet == ScopedGetOf(NetOutcomes)

\* redis_manager.set(k, "a") by a request, inside a body or not
ScopedSet == ScopedSetOf(NetOutcomes)

NextBypass ==
  \/ Tick
  \/ \E s \in Scopes : ScopeEnter(s)
  \/ \E s \in Scopes : ScopeReturns(s)
  \/ \E s \in Scopes : ScopeRaises(s)
  \/ ScopedGet
  \/ ScopedSet

SpecBypass == InitBypass /\ [][NextBypass]_vars

\* ------------- SpecSanitize: one call of a sanitizer on a producer's result
InitSanitize ==
  /\ now = 0
  /\ cb = CircuitBreaker(MaxThreshold - 1, MaxTimeout, RedisHalfOpenMaxCalls)
  /\ cpc = [c \in Callers |-> "idle"]
  /\ streak = 0
  /\ trials = 0
  /\ client = TRUE
  /\ store = [k \in Keys |-> NoEntry]
  /\ cfg = Config(TtlNone, FALSE, TRUE, FALSE, FALSE)
  /\ w = [p \in Coroutines |-> Idle]
  /\ stats = CacheService(now)
  /\ last = NoOp
  /\ kb = NoCalls
  /\ bypassing = NoScopes
  /\ \E fn \in {"yahooquery", "yfinance"}, n \in 0..MaxNesting, cyclic \in BOOLEAN :
       san = [fn |-> fn, nesting |-> IF cyclic THEN 0 ELSE n, cyclic |-> cyclic,
              depth |-> 0, status |-> "running", out |-> "none"]

\* the innermost call of yahooquery's _sanitize_for_json runs
SanitizeYahooquery ==
  /\ san.fn = "yahooquery" /\ san.status = "running"
  /\ san' = yq_sanitize_for_json(san)
  /\ UNCHANGED <<now, cb, callVars, wrapVars, stats, last, kb, bypassing>>

\* the innermost call of yfinance's _sanitize_for_json runs
SanitizeYfinance ==
  /\ san.fn = "yfinance" /\ san.status = "running"
  /\ san' = yf_sanitize_for_json(san)
  /\ UNCHANGED <<now, cb, callVars, wrapVars, stats, last, kb, bypassing>>

NextSanitize ==
  \/ SanitizeYahooquery
  \/ SanitizeYfinance

SpecSanitize == InitSanitize /\ [][NextSanitize]_vars

\* -------------- SpecInvalidate: CacheService.invalidate on a store with keys
InvKeys == {"k1", "k2", "j1"}
\* the key_pattern arguments: *, k*, k1, x*, ?1
Patterns == {<<"*">>, <<"k", "*">>, <<"k", "1">>, <<"x", "*">>, <<"?", "1">>}
\* what a key holds when the service starts: nothing, a string without expiry,
\* or a string that expires MaxTtl seconds later
Seeds(t) ==
  {NoEntry,
   [data |-> dumps(PyStr), expires |-> FALSE, at |-> 0],
   [data |-> dumps(PyStr), expires |-> TRUE, at |-> t + MaxTtl]}

InitInvalidate ==
  /\ now = 0
  /\ cb = CircuitBreaker(MaxThreshold - 1, MaxTimeout, RedisHalfOpenMaxCalls)
  /\ cpc = [c \in Callers |-> "idle"]
  /\ streak = 0
  /\ trials = 0
  /\ client \in BOOLEAN
  /\ store \in [InvKeys -> Seeds(0)]
  /\ cfg = Config(TtlNone, FALSE, TRUE, FALSE, FALSE)
  /\ w = [p \in Coroutines |-> Idle]
  /\ stats = CacheService(now)
  /\ last = NoOp
  /\ kb = NoCalls
  /\ bypassing = NoScopes
  /\ san = NoSanitize

\* cache_service.invalidate(p)
ServiceInvalidate ==
  /\ Counted(stats) < MaxCount
  /\ \E p \in Patterns, net \in NetOutcomes :
       LET r == service_invalidate(client, store, stats, p, now, net)
           c == Called("invalidate", net)
       IN /\ client' = r.client
          /\ store' = r.store
          /\ stats' = r.stats
          /\ last' = [Args(c, [c EXCEPT !.pattern = p])
                        EXCEPT !.raised = r.raised, !.count = r.ret]
  /\ UNCHANGED <<now, cb, callVars, cfg, w, kb, bypassing, san>>

NextInvalidate ==
  \/ Tick
  \/ ServiceInvalidate

SpecInvalidate == InitInvalidate /\ [][NextInvalidate]_vars

\* ------------------- SpecKeys: the keys of two calls of the same producer
InitKeys ==
  /\ now = 0
  /\ cb = CircuitBreaker(MaxThreshold - 1, MaxTimeout, RedisHalfOpenMaxCalls)
  /\ cpc = [c \in Callers |-> "idle"]
  /\ streak = 0
  /\ trials = 0
  /\ client = TRUE
  /\ store = [k \in Keys |-> NoEntry]
  /\ cfg = Config(TtlNone, FALSE, TRUE, FALSE, FALSE)
  /\ w = [p \in Coroutines |-> Idle]
  /\ stats = CacheService(now)
  /\ last = NoOp
  /\ \E c1 \in FuncCalls, c2 \in FuncCalls :
       kb = [NoCalls EXCEPT !.c1 = <<c1>>, !.c2 = <<c2>>]
  /\ bypassing = NoScopes
  /\ san = NoSanitize

\* the wrapper of @redis_cache() builds the key of each call
WrapperKeys ==
  /\ kb.built = "none"
  /\ kb' = [kb EXCEPT !.built = "wrapper",
                      !.k1 = wrapper_key("kapital:", "func", "None", kb.c1[1]),
                      !.k2 = wrapper_key("kapital:", "func", "None", kb.c2[1])]
  /\ UNCHANGED <<now, cb, callVars, wrapVars, stats, last, bypassing, san>>

\* a caller builds the key of each call's keyword arguments with
\* cache_service.generate_cache_key("func", kwargs)
ServiceKeys ==
  /\ kb.built = "none"
  /\ kb.c1[1].args = <<>> /\ kb.c2[1].args = <<>>
  /\ kb' = [kb EXCEPT !.built = "service",
                      !.k1 = generate_cache_key("func", kb.c1[1].kwargs),
                      !.k2 = generate_cache_key("func", kb.c2[1].kwargs)]
  /\ UNCHANGED <<now, cb, callVars, wrapVars, stats, last, bypassing, san>>

NextKeys ==
  \/ WrapperKeys
  \/ ServiceKeys

SpecKeys == InitKeys /\ [][NextKeys]_vars

\* ------------------------------------ Spec: coroutines running the wrapper
Init ==
  /\ now = 0
  /\ cb = CircuitBreaker(MaxThreshold - 1, MaxTimeout, RedisHalfOpenMaxCalls)
  /\ cpc = [c \in Callers |-> "idle"]
  /\ streak = 0
  /\ trials = 0
  /\ client \in BOOLEAN
  /\ store = [k \in Keys |-> NoEntry]
  /\ cfg \in Configs
  /\ w = [p \in Coroutines |-> Idle]
  /\ stats = CacheService(now)
  /\ last = NoOp
  /\ kb = NoCalls
  /\ bypassing = NoScopes
  /\ san = NoSanitize

\* a request calls the wrapped producer: wrapper up to its first await or
\* return, with the bypass argument and the network outcome from the given sets
WrapperCallOf(p, args, nets) ==
  /\ w[p].pc \in {"idle", "done"}
  /\ \E k \in Keys, arg \in args, net \in nets :
       LET r == wrapper_lookup(cfg, cb, client, store, k, arg, now, net)
       IN /\ cb' = r.cb
          /\ client' = r.client
          /\ w' = [w EXCEPT ![p] = r.frame]
  /\ UNCHANGED <<now, callVars, store, cfg, svcVars>>

\* a request calls the wrapped producer
WrapperCall(p) == WrapperCallOf(p, BypassArgs, NetOutcomes)

\* wrapper, line 99: the bypassed call's func returns v
BypassReturns(p) ==
  /\ w[p].pc = "bypass"
  /\ \E v \in PyValues :
       w' = [w EXCEPT ![p] = [@ EXCEPT !.pc = "done", !.func = "returned",
                                       !.result = v, !.out = "returned",
                                       !.ret = v]]
  /\ UNCHANGED <<now, cb, callVars, client, store, cfg, svcVars>>

\* wrapper, lines 164-198: func returns v, with v and the network outcome
\* from the given sets
ProducerReturnsOf(p, values, nets) ==
  /\ w[p].pc = "producing"
  /\ \E v \in values, us \in Micros, net \in nets :
       LET r == wrapper_store(cfg, cb, client, store, w[p], v, now, us, net)
       IN /\ cb' = r.cb
          /\ client' = r.client
          /\ store' = r.store
          /\ w' = [w EXCEPT ![p] = r.frame]
  /\ UNCHANGED <<now, callVars, cfg, svcVars>>

\* wrapper, lines 164-198: func returns
ProducerReturns(p) == ProducerReturnsOf(p, PyValues, NetOutcomes)

\* func raises inside a try whose handler reports a failure to the breaker
ProducerRaises_CountsFailure(p) ==
  /\ w[p].pc \in {"bypass", "producing"}
  /\ w' = [w EXCEPT ![p] = [@ EXCEPT !.pc = "done", !.func = "raised",
                                     !.out = "ProducerError"]]
  /\ cb' = on_failure(cb, now)
  /\ UNCHANGED <<now, callVars, client, store, cfg, svcVars>>

\* wrapper, line 99 or line 164: func raises, and nothing catches it
ProducerRaises(p) ==
  /\ w[p].pc \in {"bypass", "producing"}
  /\ w' = [w EXCEPT ![p] = [@ EXCEPT !.pc = "done", !.func = "raised",
                                     !.out = "ProducerError"]]
  /\ UNCHANGED <<now, cb, callVars, client, store, cfg, svcVars>>

Next ==
  \/ Tick
  \/ \E p \in Coroutines : WrapperCall(p)
  \/ \E p \in Coroutines : BypassReturns(p)
  \/ \E p \in Coroutines : ProducerReturns(p)
  \/ \E p \in Coroutines : ProducerRaises(p)

Spec == Init /\ [][Next]_vars

\* ------ SpecRace: two requests for the same key running the same wrapper
Racers == {"r1", "r2"}
\* what the network does to the operations of the racing requests
RaceOutcomes == {"ok", "cmd_failed"}

InitRace ==
  /\ now = 0
  /\ cb = CircuitBreaker(MaxThreshold - 1, MaxTimeout, RedisHalfOpenMaxCalls)
  /\ cpc = [c \in Callers |-> "idle"]
  /\ streak = 0
  /\ trials = 0
  /\ client = TRUE
  /\ store = [k \in Keys |-> NoEntry]
  /\ cfg = Config(TtlInt(MaxTtl), FALSE, TRUE, FALSE, FALSE)
  /\ w = [p \in Racers |-> Idle]
  /\ stats = CacheService(now)
  /\ last = NoOp
  /\ kb = NoCalls
  /\ bypassing = NoScopes
  /\ san = NoSanitize

NextRace ==
  \/ Tick
  \/ \E p \in Racers : WrapperCallOf(p, {Absent}, RaceOutcomes)
  \/ \E p \in Racers : ProducerReturnsOf(p, PyValues, RaceOutcomes)
  \/ \E p \in Racers : ProducerRaises(p)

SpecRace == InitRace /\ [][NextRace]_vars

\* ------ SpecDown: wrapped calls, one per request, while the server is down
\* the requests, each of which calls the wrapped producer once
Requests == 1..MaxThreshold

InitDown ==
  /\ now = 0
  /\ cb = CircuitBreaker(MaxThreshold - 1, MaxTimeout, RedisHalfOpenMaxCalls)
  /\ cpc = [c \in Callers |-> "idle"]
  /\ streak = 0
  /\ trials = 0
  /\ client \in BOOLEAN
  /\ store = [k \in Keys |-> NoEntry]
  /\ cfg = Config(TtlInt(MaxTtl), FALSE, TRUE, FALSE, FALSE)
  /\ w = [p \in Requests |-> Idle]
  /\ stats = CacheService(now)
  /\ last = NoOp
  /\ kb = NoCalls
  /\ bypassing = NoScopes
  /\ san = NoSanitize

\* a request that has not called yet calls the wrapped producer; the ping of
\* is_connected and the ping of _connect fail
DownCall(p) == w[p].pc = "idle" /\ WrapperCallOf(p, {Absent}, {"lost"})

\* func returns to a request, and the server is still down
DownReturns(p) == ProducerReturnsOf(p, PyValues, {"lost"})

NextDown ==
  \/ Tick
  \/ \E p \in Requests : DownCall(p)
  \/ \E p \in Requests : DownReturns(p)

SpecDown == InitDown /\ [][NextDown]_vars

\* -- SpecRouted: wrapped calls and CacheService.get on one manager and one
\* breaker
\* what the network does to the operations of the wrapped calls
RoutedOutcomes == {"ok", "flap"}

InitRouted ==
  /\ now = 0
  /\ cb = CircuitBreaker(MaxThreshold - 1, MaxTimeout, RedisHalfOpenMaxCalls)
  /\ cpc = [c \in Callers |-> "idle"]
  /\ streak = 0
  /\ trials = 0
  /\ client = TRUE
  /\ store = [k \in Keys |-> NoEntry]
  /\ cfg = Config(TtlInt(MaxTtl), FALSE, TRUE, FALSE, FALSE)
  /\ w = [p \in Coroutines |-> Idle]
  /\ stats = CacheService(now)
  /\ last = NoOp
  /\ kb = NoCalls
  /\ bypassing = NoScopes
  /\ san = NoSanitize

NextRouted ==
  \/ Tick
  \/ \E p \in Coroutines : WrapperCallOf(p, {Absent}, RoutedOutcomes)
  \/ \E p \in Coroutines : ProducerReturnsOf(p, {PyStr}, RoutedOutcomes)
  \/ ServiceGet

SpecRouted == InitRouted /\ [][NextRouted]_vars

\* -- SpecCounters: the two objects that hold shared counters. The breaker
\* and CacheService hold no reference to each other, so a run exercises one
\* of them: callers of the breaker with calls in flight, or callers of
\* CacheService, whose methods have no await and run one after the other.
InitCounters ==
  /\ now = 0
  /\ cb = CircuitBreaker(MaxThreshold - 1, 1, MaxHalfOpen)
  /\ cpc = [c \in Callers |-> "idle"]
  /\ streak = 0
  /\ trials = 0
  /\ client = TRUE
  /\ store = [k \in Keys |-> NoEntry]
  /\ cfg = Config(TtlNone, FALSE, TRUE, FALSE, FALSE)
  /\ w = [p \in Coroutines |-> Idle]
  /\ stats = CacheService(now)
  /\ last = NoOp
  /\ kb = NoCalls
  /\ bypassing = NoScopes
  /\ san = NoSanitize

\* no call of CacheService has been made
ServiceUntouched == last = NoOp /\ stats = CacheService(0)
\* no call of the breaker has been made and the clock has not advanced
BreakerUntouched == now = 0 /\ \A c \in Callers : cpc[c] = "idle"

NextCounters ==
  \/ ServiceUntouched /\ NextBreaker
  \/ BreakerUntouched /\ ServiceGet
  \/ BreakerUntouched /\ AdminSet

SpecCounters == InitCounters /\ [][NextCounters]_vars

\* --------------- SpecDaily: the wrapper of a producer decorated with
\* @redis_cache(ttl=CacheStrategy.DAILY)
InitDaily ==
  /\ now = 0
  /\ cb = CircuitBreaker(MaxThreshold - 1, MaxTimeout, RedisHalfOpenMaxCalls)
  /\ cpc = [c \in Callers |-> "idle"]
  /\ streak = 0
  /\ trials = 0
  /\ client = TRUE
  /\ store = [k \in Keys |-> NoEntry]
  /\ cfg = Config(TtlStrategy("daily"), FALSE, TRUE, FALSE, TRUE)
  /\ w = [p \in Coroutines |-> Idle]
  /\ stats = CacheService(now)
  /\ last = NoOp
  /\ kb = NoCalls
  /\ bypassing = NoScopes
  /\ san = NoSanitize

SpecDaily == InitDaily /\ [][Next]_vars

\* ------------------------------------------------ claims on the wrapper
\* coroutine p's frame after a step of p: a call, or func coming back
Stepped(p) == w'[p] # w[p]
\* p calls the wrapper in this step
Calls(p) == w[p].pc \in {"idle", "done"} /\ w'[p] # w[p]

\* C1: with disable_on_error=True, a call whose producer returned a value
\* returns exactly that value, whatever the cache get and the cache set did.
C1_ProducerValueReturned ==
  \A p \in Coroutines :
    (cfg.disable_on_error /\ w[p].pc = "done" /\ w[p].func = "returned")
      => (w[p].out = "returned" /\ w[p].ret = w[p].result)

\* C1 happens: a call with disable_on_error=True whose get raised (from the
\* store or as the breaker's refusal) and whose set raised has returned the
\* producer's string
C1_Witness ==
  \E p \in Coroutines :
    /\ cfg.disable_on_error /\ w[p].pc = "done" /\ w[p].func = "returned"
    /\ w[p].get \in {"rejected", "error"} /\ w[p].set = "error"
    /\ w[p].result = PyStr /\ w[p].ret = PyStr

ArgTruthy(a) == a.how # "absent" /\ a.val \notin {"False", "0", "", "None"}
\* given by keyword, and True or one of the accepted strings in any letter case
ArgAsksBypass(a) ==
  /\ a.how = "keyword"
  /\ \/ a.type = "bool" /\ a.val = "True"
     \/ a.type = "str" /\ a.val \in {"true", "t", "yes", "y", "1", "YES"}
\* the bypassed call's step: func called once, no get, no set, and the breaker,
\* the manager and the store as they were
NoCacheTouched(p) ==
  /\ w'[p].get = "skipped" /\ w'[p].set = "skipped" /\ w'[p].produced = 1
  /\ cb' = cb /\ client' = client /\ store' = store

\* C3 as the claim states it: every step of a call in which the configured
\* bypass parameter is present and truthy calls the producer once in all and
\* touches neither the cache nor the breaker.
C3_AsStated ==
  [][\A p \in Coroutines :
       (Stepped(p) /\ cfg.bypass_cache_param /\ ArgTruthy(w'[p].arg))
         => NoCacheTouched(p)]_vars

\* C3: every step of a call in which the configured bypass parameter is given
\* by keyword and is True or one of the strings true, t, yes, y, 1 in any
\* letter case calls the producer once in all and touches neither the cache
\* nor the breaker.
C3_BypassSkipsCache ==
  [][\A p \in Coroutines :
       (Stepped(p) /\ cfg.bypass_cache_param /\ ArgAsksBypass(w'[p].arg))
         => NoCacheTouched(p)]_vars

\* C3 happens: a call given the string "YES" has returned the producer's
\* value while the breaker was refusing cache calls
C3_Witness ==
  \E p \in Coroutines :
    /\ cfg.bypass_cache_param /\ w[p].arg.val = "YES"
    /\ w[p].pc = "done" /\ w[p].func = "returned" /\ w[p].produced = 1
    /\ w[p].ret = w[p].result
    /\ cb.state = OPEN

\* C4: the step in which the producer raises after a miss makes the wrapper
\* raise that error, with no set made, the store unwritten and the breaker as
\* the get left it.
C4_ProducerErrorPropagates ==
  [][\A p \in Coroutines :
       (w[p].pc = "producing" /\ w'[p].func = "raised")
         => (/\ w'[p].pc = "done" /\ w'[p].out = "ProducerError"
             /\ w'[p].set = "skipped"
             /\ store' = store /\ cb' = cb)]_vars

\* C4 happens: the producer raised after a get that failed and was counted by
\* the breaker, and the count is still there
C4_Witness ==
  \E p \in Coroutines :
    /\ w[p].pc = "done" /\ w[p].func = "raised" /\ w[p].get = "error"
    /\ w[p].out = "ProducerError"
    /\ cb.state = CLOSED /\ cb.failure_count = 1

\* -------------------------------------------------- claims on the store
ManagerOps == {"get", "set", "delete", "clear_all"}

\* C11: whatever the backend does, an operation of the manager does not raise
\* to its caller, and one that did not get to the server returns None (get) or
\* False (set, delete, clear_all).
C11_AsStated ==
  last.op \in ManagerOps
    => (/\ ~last.raised
        /\ ~last.up => (last.ret = PyNone /\ ~last.flag))

\* C12: a get that gets to the server right after set(key, value, ttl) with
\* ttl > 0 did (no operation between them) returns value when the clock has not
\* moved since the set, and None when ttl seconds or more have passed.
C12_SetThenGet ==
  [][(/\ last.op = "set" /\ last.up /\ ~last.midnight /\ Truthy(last.ttl)
      /\ last'.op = "get" /\ last'.up /\ last'.key = last.key)
       => (/\ now = last.at => last'.ret = last.value
           /\ now >= last.at + last.ttl.secs => last'.ret = PyNone)]_vars

\* C12 happens: a get made ttl seconds or more after the set of a string has
\* returned None
C12_Witness ==
  /\ last.op = "get" /\ last.up /\ last.follows = "expired"
  /\ last.ret = PyNone

\* 00:00:00 UTC of the day after the clock reading t
NextMidnight(t) == t - (t % SecondsPerDay) + SecondsPerDay

\* C13: a set with midnight invalidation that gets to the server writes the
\* entry with a TTL, and that TTL is the seconds from the clock reading of this
\* set to the next 00:00:00 UTC: exactly, or to the whole second when the
\* reading has a fraction.
C13_AsStated ==
  [][(last' # last /\ last'.op = "set" /\ last'.up /\ last'.midnight)
       => LET e == store'[last'.key]
              ttl == e.at - now
          IN /\ e.expires
             /\ IF last'.us = 0
                THEN ttl = NextMidnight(now) - now
                ELSE ttl \in {NextMidnight(now) - now - 1,
                              NextMidnight(now) - now}]_vars

\* C14 on the wrapper: the entry stored for a producer wrapped with
\* ttl=CacheStrategy.DAILY expires at the next 00:00:00 UTC after the set.
C14_AsStated ==
  [][\A p \in Coroutines :
       (w[p].pc = "producing" /\ w'[p].set = "true"
        /\ cfg.ttl = TtlStrategy("daily"))
         => LET e == store'[w'[p].key]
            IN e.expires /\ e.at = NextMidnight(now)]_vars

\* ------------------------------------------------ claims on the service
\* a call of CacheService.set is made in this step
ServiceSets == last'.op = "svc_set" /\ (last' # last \/ stats' # stats)
\* a call of CacheService.get is made in this step
ServiceGets == last'.op = "svc_get" /\ (last' # last \/ stats' # stats)

\* C15: a CacheService.set given an explicit ttl that gets to the server writes
\* the entry with that ttl counted from the call, whichever strategy it is
\* given (None, DAILY, NO_CACHE); ttl 0 writes it without expiry, as
\* RedisManager.set does with ttl 0.
C15_ExplicitTtlWins ==
  [][(ServiceSets /\ last'.up /\ ~last'.ttl.none)
       => LET e == store'[last'.key]
          IN /\ last'.flag
             /\ e.data = dumps(last'.value)
             /\ IF last'.ttl.secs > 0
                THEN e.expires /\ e.at = now + last'.ttl.secs
                ELSE ~e.expires]_vars

\* C15 happens: a set with strategy DAILY and an explicit ttl has written an
\* entry that expires ttl seconds after the call, before midnight
C15_Witness ==
  /\ last.op = "svc_set" /\ last.up /\ last.strategy = "daily"
  /\ ~last.ttl.none /\ last.ttl.secs = 1
  /\ store[last.key].expires /\ store[last.key].at = last.at + 1
  /\ store[last.key].at < NextMidnight(last.at)

\* C16: a CacheService.set with strategy NO_CACHE and no ttl returns True and
\* leaves the store, the manager and the four counters as they were.
C16_NoCacheIsNoOp ==
  [][(ServiceSets /\ last'.strategy = "no_cache" /\ last'.ttl.none)
       => (/\ last'.flag /\ ~last'.raised
           /\ store' = store /\ stats' = stats /\ client' = client)]_vars

\* C16 happens: a NO_CACHE set of None has returned True with the server out of
\* reach, and the string stored under its key is still there
C16_Witness ==
  /\ last.op = "svc_set" /\ last.strategy = "no_cache" /\ last.ttl.none
  /\ last.flag /\ ~last.up /\ last.value = PyNone
  /\ Live(store[last.key], now) /\ store[last.key].data = dumps(PyStr)
  /\ stats.sets = 1 /\ stats.errors = 0

\* C20: each call of CacheService.get adds one to hits and returns (value,
\* True), or adds one to misses and returns (None, False), and changes no other
\* counter and no stored entry.
C20_AsStated ==
  [][ServiceGets
       => (/\ ~last'.raised
           /\ \/ /\ last'.flag /\ last'.ret # PyNone
                 /\ stats' = [stats EXCEPT !.hits = @ + 1]
              \/ /\ ~last'.flag /\ last'.ret = PyNone
                 /\ stats' = [stats EXCEPT !.misses = @ + 1]
           /\ store' = store)]_vars

\* a call of CacheService.invalidate is made in this step
Invalidates ==
  /\ last'.op = "invalidate"
  /\ last' # last \/ stats' # stats
\* the keys of InvKeys that each pattern of Patterns matches
Matching(p) ==
  CASE p = <<"*">> -> {"k1", "k2", "j1"}
    [] p = <<"k", "*">> -> {"k1", "k2"}
    [] p = <<"k", "1">> -> {"k1"}
    [] p = <<"x", "*">> -> {}
    [] p = <<"?", "1">> -> {"k1", "j1"}

\* C18: an invalidate(pattern) that gets to the server removes every key the
\* pattern matches, returns how many keys it removed, and leaves every other
\* key with its value and expiry.
C18_InvalidateRemovesMatching ==
  [][(Invalidates /\ last'.up)
       => LET present == {k \in InvKeys : Live(store[k], now)}
              gone == present \cap Matching(last'.pattern)
          IN /\ ~last'.raised
             /\ last'.count = Cardinality(gone)
             /\ \A k \in gone : store'[k] = NoEntry
             /\ \A k \in InvKeys \ gone : store'[k] = store[k]]_vars

\* C18 happens: invalidate("k*") has removed the two keys under k and returned
\* 2, and the key j1 is still there
C18_Witness ==
  /\ last.op = "invalidate" /\ last.up /\ last.pattern = <<"k", "*">>
  /\ last.count = 2
  /\ store["k1"] = NoEntry /\ store["k2"] = NoEntry
  /\ Live(store["j1"], now)

\* C19: an invalidate that fails (the store out of reach, or a backend error
\* while listing or deleting) adds one to errors, returns 0 and does not raise.
C19_AsStated ==
  [][(Invalidates /\ ~last'.up)
       => (/\ ~last'.raised
           /\ last'.count = 0
           /\ stats' = [stats EXCEPT !.errors = @ + 1])]_vars

\* ----------------------------------------- claims on the administration
\* a call of reset_stats through its endpoint is made in this step
ResetsStats == last'.op = "reset_stats" /\ (last' # last \/ stats' # stats)

\* C21: reset_stats sets hits, misses, sets and errors to 0 and restarts the
\* uptime clock, and leaves every stored entry and the breaker as they were.
C21_ResetStatsFrame ==
  [][ResetsStats =>
       /\ stats'.hits = 0 /\ stats'.misses = 0
       /\ stats'.sets = 0 /\ stats'.errors = 0
       /\ uptime_seconds(stats', now') = 0
       /\ store' = store
       /\ cb' = cb]_vars

\* C21 happens: the statistics were reset after the clock had advanced, on a
\* store that keeps the entry whose set had been counted
C21_Witness ==
  /\ last.op = "reset_stats"
  /\ last.at > 0
  /\ stats = CacheService(last.at)
  /\ \E k \in Keys : Live(store[k], now)

\* ------------------------------------------------ claims on sanitization
\* C25 as the claim states it: in both sanitizers the recursion goes no
\* deeper than the call that finds depth > max_depth and returns the string
\* form, and a call of a sanitizer returns.
C25_AsStated ==
  /\ san.depth <= max_depth + 1
  /\ san.status # "raised"
  /\ (san.status = "returned" /\ (san.cyclic \/ san.nesting > max_depth))
       => san.out = "str"

\* ------------------------------------------------ claims on null results
\* func returns None to the call p in this step
ReturnsNone(p) ==
  w[p].pc = "producing" /\ w'[p].func = "returned" /\ w'[p].result = PyNone

\* C24: when func returns None on a miss, the wrapper returns None; with
\* cache_null_responses false it attempts no write and the store is as it was,
\* with cache_null_responses true it calls set_in_cache, and a set that
\* succeeds leaves the serialized None under the key with the expiry of the
\* configured ttl.
C24_NullResults ==
  [][\A p \in DOMAIN w :
       ReturnsNone(p) =>
         /\ w'[p].out = "returned" /\ w'[p].ret = PyNone
         /\ ~cfg.cache_null_responses
              => (w'[p].set = "skipped" /\ store' = store)
         /\ cfg.cache_null_responses
              => /\ w'[p].set # "skipped"
                 /\ w'[p].set = "true"
                      => store'[w'[p].key] =
                           [data |-> dumps(PyNone), expires |-> TRUE,
                            at |-> now + ttl_seconds(cfg).secs]]_vars

\* C24 happens: with cache_null_responses true a call has returned the None of
\* func and stored it, and the entry is live
C24_Witness ==
  /\ cfg.cache_null_responses
  /\ \E p \in DOMAIN w :
       /\ w[p].pc = "done" /\ w[p].func = "returned" /\ w[p].result = PyNone
       /\ w[p].set = "true" /\ w[p].ret = PyNone
       /\ store[w[p].key].data = dumps(PyNone)
       /\ Live(store[w[p].key], now)

\* ------------------------------------------ claims on concurrent requests
\* C23: concurrent wrapped calls that miss on the same key are not
\* de-duplicated: each call whose lookup finds nothing calls func itself, also
\* while another call of the same key is awaiting func, and each call that
\* stores writes its own result over the entry, so the entry is the last set's.
C23_NoSingleFlight ==
  [][\A p \in DOMAIN w :
       /\ (w[p].pc \in {"idle", "done"} /\ w'[p] # w[p] /\ w'[p].get = "absent")
            => (w'[p].pc = "producing" /\ w'[p].produced = 1)
       /\ (w[p].pc = "producing" /\ w'[p].set = "true")
            => /\ w'[p].func = "returned"
               /\ store'[w'[p].key].data = dumps(w'[p].result)]_vars

\* C23 happens: at one clock reading both requests have found nothing on a
\* server that answered, both have called func and stored what it returned,
\* 0 to the one and "a" to the other, and the entry is that of r2
C23_Witness ==
  /\ now = 0
  /\ \A p \in Racers : /\ p \in DOMAIN w
                        /\ w[p].pc = "done" /\ w[p].up /\ w[p].get = "absent"
                        /\ w[p].produced = 1 /\ w[p].set = "true"
  /\ w["r1"].result = PyZero /\ w["r2"].result = PyStr
  /\ store["k1"].data = dumps(PyStr)

\* ----------------------------------------------- claims on BypassCache
\* the with statement s is left in this step
Exits(s) == bypassing.scope[s].pc = "in" /\ bypassing'.scope[s].pc = "out"

\* C22: when a BypassCache scope is left, by the end of its body or by an
\* error raised in it, redis_manager.is_connected is what it was when the
\* scope was entered.
C22_ExitRestores ==
  [][\A s \in Scopes :
       Exits(s) => bypassing'.is_connected = bypassing.scope[s].on_entry]_vars

\* C22 happens: a scope entered on the manager's own method has been left by
\* an error, no scope is open, the method is back and a get reaches the server
C22_Witness ==
  /\ \E s \in Scopes : /\ bypassing.scope[s].pc = "out"
                        /\ bypassing.scope[s].exit = "error"
                        /\ bypassing.scope[s].on_entry = "method"
  /\ \A s \in Scopes : bypassing.scope[s].pc = "out"
  /\ bypassing.is_connected = "method"
  /\ last.op = "get" /\ last.up

\* --------------------------------------------- claims on key generation
\* the value the call c supplies for a parameter it supplies
Given(c, name) ==
  IF \E i \in 1..Len(c.args) : Params[i] = name
  THEN c.args[CHOOSE i \in 1..Len(c.args) : Params[i] = name]
  ELSE c.kwargs[CHOOSE i \in 1..Len(c.kwargs) : c.kwargs[i].name = name].value
\* the value func receives for each parameter in the call c
Received(c) ==
  [name \in {Params[i] : i \in 1..Len(Params)} |->
     IF name \in Supplied(c) THEN Given(c, name) ELSE Default(name)]
\* two calls that supply the same parameters with the same values
SameSupplied(c1, c2) ==
  /\ Supplied(c1) = Supplied(c2)
  /\ \A name \in Supplied(c1) : Given(c1, name) = Given(c2, name)

Begins(c) == cpc[c] # "in_func" /\ cpc'[c] # cpc[c]
\* caller c's func returns / raises in this step
Returns(c) == cpc[c] = "in_func" /\ cpc'[c] = "returned"
Raises(c) == cpc[c] = "in_func" /\ cpc'[c] = "raised"

\* C5: from CLOSED with failure_count 0 the breaker opens on the
\* failure_threshold-th consecutive failed call and not before, and a successful
\* call resets failure_count: while CLOSED failure_count is the number of failed
\* calls since the last success and stays below failure_threshold, and the step
\* that leaves CLOSED goes to OPEN on the failure that makes that number
\* failure_threshold.
C5_OpensAtThreshold ==
  /\ [](cb.state = CLOSED =>
          cb.failure_count = streak /\ streak < cb.failure_threshold)
  /\ [][cb.state = CLOSED /\ cb'.state # CLOSED =>
          /\ cb'.state = OPEN
          /\ streak' = cb.failure_threshold
          /\ \E c \in Callers : Raises(c)]_vars

C5_Witness ==
  /\ cb.state = OPEN
  /\ cb.failure_threshold >= 2
  /\ streak = cb.failure_threshold
  /\ trials = 0

\* C6: while OPEN and recovery_timeout has not elapsed since last_failure_time,
\* a call raises CircuitBreakerError, func is not called, and the breaker's
\* state, failure_count and last_failure_time are unchanged.
C6_OpenFailsFast ==
  [][\A c \in Callers :
       (/\ cpc[c] # "in_func"
        /\ cb.state = OPEN
        /\ now < cb.last_failure_time + cb.recovery_timeout
        /\ <<cpc[c], cb>>' # <<cpc[c], cb>>
        /\ \A d \in Callers \ {c} : cpc'[d] = cpc[d])
       => cpc'[c] = "rejected" /\ cb' = cb]_vars

C6_Witness ==
  \E c \in Callers :
    /\ cpc[c] = "rejected"
    /\ cb.state = OPEN
    /\ now > cb.last_failure_time
    /\ now < cb.last_failure_time + cb.recovery_timeout

\* C7 as stated: the first call made once recovery_timeout seconds have elapsed
\* since the last failure (now - last_failure_time >= recovery_timeout) moves
\* the breaker from OPEN to HALF_OPEN and is let through as the trial call.
C7_AsStated ==
  [][\A c \in Callers :
       (/\ Begins(c)
        /\ cb.state = OPEN
        /\ now >= cb.last_failure_time + cb.recovery_timeout)
       => cb'.state = HALF_OPEN /\ cpc'[c] = "in_func"]_vars

\* C7, amended: the first call made when more than recovery_timeout seconds
\* have elapsed since the last failure moves the breaker from OPEN to HALF_OPEN,
\* half_open_calls restarts from 0 and counts that call, and the call is let
\* through to func as the trial call; at exactly recovery_timeout seconds the
\* call still fails fast.
C7_HalfOpenAfterTimeout ==
  [][\A c \in Callers :
       /\ (/\ Begins(c)
           /\ cb.state = OPEN
           /\ now > cb.last_failure_time + cb.recovery_timeout)
          => /\ cb'.state = HALF_OPEN
             /\ cb'.half_open_calls = 1
             /\ cpc'[c] = "in_func"
       /\ (/\ Begins(c)
           /\ cb.state = OPEN
           /\ now = cb.last_failure_time + cb.recovery_timeout)
          => cb' = cb /\ cpc'[c] = "rejected"]_vars

C7_Witness ==
  \E c \in Callers :
    /\ cpc[c] = "in_func"
    /\ cb.state = HALF_OPEN
    /\ cb.half_open_calls = 1
    /\ trials = 1
    /\ now > cb.last_failure_time + cb.recovery_timeout

\* C8: a trial call that succeeds while the breaker is HALF_OPEN moves it to
\* CLOSED with failure_count 0, and a call made while CLOSED is let through.
C8_TrialSuccessCloses ==
  [][\A c \in Callers :
       /\ (Returns(c) /\ cb.state = HALF_OPEN)
          => cb'.state = CLOSED /\ cb'.failure_count = 0
       /\ (Begins(c) /\ cb.state = CLOSED)
          => cpc'[c] = "in_func" /\ cb' = cb]_vars

C8_Witness ==
  \E c \in Callers :
    /\ cpc[c] = "returned"
    /\ cb.state = CLOSED
    /\ cb.failure_count = 0
    /\ trials >= 1
    /\ \E d \in Callers : cpc[d] = "in_func"

\* C9: a trial call that fails while the breaker is HALF_OPEN moves it to OPEN
\* and restarts the cooldown: last_failure_time becomes the time of that
\* failure, and a call at any time within recovery_timeout of it fails fast.
C9_TrialFailureReopens ==
  [][\A c \in Callers :
       (Raises(c) /\ cb.state = HALF_OPEN)
       => /\ cb'.state = OPEN
          /\ cb'.last_failure_time = now
          /\ \A t \in now..(now + cb.recovery_timeout - 1) :
               ~Admission(cb', t).admitted]_vars

C9_Witness ==
  \E c \in Callers :
    /\ cpc[c] = "raised"
    /\ cb.state = OPEN
    /\ trials >= 1
    /\ cb.last_failure_time = now
    /\ now > cb.recovery_timeout

\* C10: while the breaker is HALF_OPEN at most half_open_max_calls calls are
\* let through to func, however the calls overlap, and a further call raises
\* CircuitBreakerError without calling func.
C10_HalfOpenQuota ==
  /\ [](trials <= cb.half_open_max_calls)
  /\ [][\A c \in Callers :
          (/\ Begins(c)
           /\ cb.state = HALF_OPEN
           /\ trials >= cb.half_open_max_calls)
          => cpc'[c] = "rejected" /\ cb' = cb]_vars

C10_Witness ==
  \E c, d \in Callers :
    /\ cpc[c] = "rejected"
    /\ cpc[d] = "in_func"
    /\ cb.state = HALF_OPEN
    /\ trials = cb.half_open_max_calls

\* the changes of state of the state machine
Transitions ==
  {<<CLOSED, OPEN>>, <<OPEN, HALF_OPEN>>, <<HALF_OPEN, CLOSED>>,
   <<HALF_OPEN, OPEN>>}

\* C26: the breaker starts CLOSED, and every change of its state, whatever
\* the interleaving of the calls, is CLOSED to OPEN, OPEN to HALF_OPEN,
\* HALF_OPEN to CLOSED or HALF_OPEN to OPEN.
C26_OnlyDefinedTransitions ==
  /\ cb.state = CLOSED
  /\ [][cb'.state # cb.state => <<cb.state, cb'.state>> \in Transitions]_vars

\* C26 happens: the breaker is closed again after a trial call, so it has
\* opened, become half-open and closed, while another call is inside func
C26_Witness ==
  /\ cb.state = CLOSED
  /\ trials >= 1
  /\ \E c \in Callers : cpc[c] = "returned"
  /\ \E c \in Callers : cpc[c] = "in_func"

\* C27 as the claim states it: with the server down for every operation, once
\* failure_threshold wrapped calls have been made and have returned, the
\* breaker is OPEN.
C27_AsStated ==
  Cardinality({p \in DOMAIN w : w[p].pc = "done"}) >= cb.failure_threshold
    => cb.state = OPEN

\* C28 as the claim states it: while the breaker is OPEN and stays OPEN, no
\* get of CacheService gets to the server.
C28_AsStated ==
  [][(cb.state = OPEN /\ cb'.state = OPEN /\ ServiceGets) => ~last'.up]_vars

\* the statistics with one more event counted by the counter f
Plus1(sts, f) == [sts EXCEPT ![f] = @ + 1]

\* C29: no update of a shared counter is lost. While the breaker is CLOSED
\* failure_count is the number of failed calls since the last successful one,
\* while it is HALF_OPEN half_open_calls is the number of calls admitted since
\* it became half-open, whatever calls are in flight; and every
\* CacheService.get or set that returns adds one to the counter of its
\* outcome, and nothing else changes the statistics.
C29_NoLostUpdate ==
  /\ [](cb.state = CLOSED => cb.failure_count = streak)
  /\ [](cb.state = HALF_OPEN => cb.half_open_calls = trials)
  /\ [][ServiceGets =>
          stats' = IF last'.raised THEN stats
                   ELSE IF last'.flag THEN Plus1(stats, "hits")
                   ELSE Plus1(stats, "misses")]_vars
  /\ [][ServiceSets =>
          stats' = IF last'.raised THEN stats
                   ELSE IF last'.flag THEN Plus1(stats, "sets")
                   ELSE Plus1(stats, "errors")]_vars
  /\ [][stats' # stats => (ServiceGets \/ ServiceSets)]_vars

\* C29 happens: two trial calls admitted by the half-open breaker are in
\* flight together and both are counted
C29_Witness ==
  /\ cb.state = HALF_OPEN
  /\ \A c \in Callers : cpc[c] = "in_func"
  /\ trials = NumCallers
  /\ cb.half_open_calls = NumCallers

\* C30 as the claim states it: every lookup of the wrapper that is not
\* bypassed is counted as a hit or a miss, and every store it attempts as a
\* set or an error.
C30_AsStated ==
  [][\A p \in DOMAIN w :
       /\ (w[p].pc \in {"idle", "done"} /\ w'[p] # w[p] /\ w'[p].pc # "bypass")
            => stats'.hits + stats'.misses = stats.hits + stats.misses + 1
       /\ (w[p].pc = "producing" /\ w'[p].set # "skipped")
            => stats'.sets + stats'.errors = stats.sets + stats.errors + 1]_vars

\* ---- SpecMidnight: the wrapper of a producer decorated with a ttl and
\* invalidate_at_midnight=True, called around midnight UTC
\* what the network does to the operations of these calls
MidnightOutcomes == {"ok", "lost"}

InitMidnight ==
  /\ now = SecondsPerDay - 2
  /\ cb = CircuitBreaker(MaxThreshold - 1, MaxTimeout, RedisHalfOpenMaxCalls)
  /\ cpc = [c \in Callers |-> "idle"]
  /\ streak = 0
  /\ trials = 0
  /\ client = TRUE
  /\ store = [k \in Keys |-> NoEntry]
  /\ \E n \in 1..MaxTtl : cfg = Config(TtlInt(n), TRUE, TRUE, FALSE, FALSE)
  /\ w = [p \in Coroutines |-> Idle]
  /\ stats = CacheService(now)
  /\ last = NoOp
  /\ kb = NoCalls
  /\ bypassing = NoScopes
  /\ san = NoSanitize

NextMidnightCalls ==
  \/ Tick
  \/ \E p \in Coroutines : WrapperCallOf(p, {Absent}, MidnightOutcomes)
  \/ \E p \in Coroutines : ProducerReturnsOf(p, PyValues, MidnightOutcomes)

SpecMidnight == InitMidnight /\ [][NextMidnightCalls]_vars

\* C31 as the claim states it: the entry stored by a wrapper decorated with a
\* ttl and invalidate_at_midnight=True expires at the next 00:00:00 UTC after
\* the set (to the whole second), whatever the ttl.
C31_AsStated ==
  [][\A p \in DOMAIN w :
       (/\ w[p].pc = "producing" /\ w'[p].set = "true"
        /\ cfg.invalidate_at_midnight /\ cfg.ttl.kind = "int")
         => LET e == store'[w'[p].key]
            IN e.expires /\ NextMidnight(now) - e.at \in {0, 1}]_vars

\* C33 as the claim states it: whenever no BypassCache scope is open,
\* redis_manager.is_connected is the manager's own method.
C33_AsStated ==
  (\A s \in Scopes : bypassing.scope[s].pc = "out")
    => bypassing.is_connected = "method"

\* ---- SpecOutside: requests whose with statements of BypassCache are open
\* while other requests, in no with body, call the manager; the server answers
\* some request is in no with body
SomeOutside == \E s \in Scopes : bypassing.scope[s].pc = "out"
\* some request is in a with body
SomeInside == \E s \in Scopes : bypassing.scope[s].pc = "in"

\* redis_manager.get(k) by a request that is in no with body
OutsideGet == SomeOutside /\ ScopedGetOf({"ok"})

\* redis_manager.set(k, "a") by a request that is in no with body
OutsideSet == SomeOutside /\ ScopedSetOf({"ok"})

NextOutside ==
  \/ Tick
  \/ \E s \in Scopes : ScopeEnter(s)
  \/ \E s \in Scopes : ScopeReturns(s)
  \/ OutsideGet
  \/ OutsideSet

SpecOutside == InitBypass /\ [][NextOutside]_vars

\* C32 as the claim states it: while a BypassCache scope is open, a get made
\* by a request outside it gets to the server and returns the live entry of
\* its key, and a set made by such a request gets to the server and returns
\* True.
C32_AsStated ==
  [][(/\ last' # last /\ last'.op \in {"get", "set"}
      /\ SomeInside /\ SomeOutside)
       => /\ last'.up
          /\ last'.op = "set" => last'.flag
          /\ (last'.op = "get" /\ Live(store[last'.key], now))
               => last'.ret = loads(store[last'.key].data)]_vars

\* ---- SpecNoCache: the wrapper of a producer decorated with
\* @redis_cache(ttl=CacheStrategy.NO_CACHE), on an empty store
InitNoCache ==
  /\ now = 0
  /\ cb = CircuitBreaker(MaxThreshold - 1, MaxTimeout, RedisHalfOpenMaxCalls)
  /\ cpc = [c \in Callers |-> "idle"]
  /\ streak = 0
  /\ trials = 0
  /\ client = TRUE
  /\ store = [k \in Keys |-> NoEntry]
  /\ cfg = Config(TtlStrategy("no_cache"), FALSE, TRUE, FALSE, TRUE)
  /\ w = [p \in Coroutines |-> Idle]
  /\ stats = CacheService(now)
  /\ last = NoOp
  /\ kb = NoCalls
  /\ bypassing = NoScopes
  /\ san = NoSanitize

SpecNoCache == InitNoCache /\ [][Next]_vars

\* C34 as the claim states it: no key of a producer wrapped with
\* ttl=CacheStrategy.NO_CACHE holds an entry, after any wrapped calls.
C34_AsStated ==
  cfg.ttl = TtlStrategy("no_cache") => \A k \in Keys : ~Live(store[k], now)

\* C35 as the claim states it: a RedisManager.set that gets to the server
\* writes the entry with an expiry later than the call whenever it is given a
\* ttl (0 included) or invalidate_at_midnight=True, and without expiry only
\* when it is given neither.
C35_AsStated ==
  [][(last' # last /\ last'.op = "set" /\ last'.up)
       => LET e == store'[last'.key]
          IN IF ~last'.ttl.none \/ last'.midnight
             THEN e.expires /\ e.at > now
             ELSE ~e.expires]_vars

\* ---- SpecCollide: the wrapper's keys of two calls whose values are the
\* int 0 and strings, some of them with colons
PyStr0 == [type |-> "str", repr |-> "0"]
PyColon0 == [type |-> "str", repr |-> "0:symbol:a"]
PyColonA == [type |-> "str", repr |-> "a:symbol:a"]
CollideScalars == {PyZero, PyStr0, PyStr, PyColon0, PyColonA}

\* a piece of a key as the pieces between and at its colons
Pieces(x) ==
  CASE x = "0:symbol:a" -> <<"0", ":", "symbol", ":", "a">>
    [] x = "a:symbol:a" -> <<"a", ":", "symbol", ":", "a">>
    [] OTHER -> <<x>>
\* the key as one string: the pieces of its parts in a row
RECURSIVE Text(_)
Text(k) == IF k = <<>> THEN <<>> ELSE Pieces(Head(k)) \o Text(Tail(k))

InitCollide ==
  /\ now = 0
  /\ cb = CircuitBreaker(MaxThreshold - 1, MaxTimeout, RedisHalfOpenMaxCalls)
  /\ cpc = [c \in Callers |-> "idle"]
  /\ streak = 0
  /\ trials = 0
  /\ client = TRUE
  /\ store = [k \in Keys |-> NoEntry]
  /\ cfg = Config(TtlNone, FALSE, TRUE, FALSE, FALSE)
  /\ w = [p \in Coroutines |-> Idle]
  /\ stats = CacheService(now)
  /\ last = NoOp
  /\ \E c1 \in FuncCallsOf(CollideScalars), c2 \in FuncCallsOf(CollideScalars) :
       kb = [NoCalls EXCEPT !.c1 = <<c1>>, !.c2 = <<c2>>]
  /\ bypassing = NoScopes
  /\ san = NoSanitize

SpecCollide == InitCollide /\ [][WrapperKeys]_vars

\* both calls supply the parameter name, with values that are not None and
\* differ
Differ(c1, c2, name) ==
  /\ name \in Supplied(c1) \cap Supplied(c2)
  /\ Given(c1, name) # PyNone /\ Given(c2, name) # PyNone
  /\ Given(c1, name) # Given(c2, name)

\* C36 as the claim states it: two calls of func that give some parameter
\* different values, neither of them None, get different keys from the
\* wrapper.
C36_AsStated ==
  (kb.built = "wrapper" /\ \E i \in 1..Len(Params) : Differ(kb.c1[1], kb.c2[1], Params[i]))
    => Text(kb.k1) # Text(kb.k2)

\* C37 as the claim states it: with cache_null_responses=True, the call that
\* follows a call whose func returned None and whose set stored it, made with
\* the same key while the server answers and the entry is live, returns the
\* stored None without calling func.
C37_AsStated ==
  [][\A p \in DOMAIN w :
       (/\ cfg.cache_null_responses
        /\ w[p].pc = "done" /\ w[p].func = "returned" /\ w[p].result = PyNone
        /\ w[p].set = "true"
        /\ w'[p] # w[p] /\ w'[p].pc # "bypass" /\ w'[p].key = w[p].key
        /\ w'[p].up /\ Live(store[w[p].key], now))
         => (/\ w'[p].pc = "done" /\ w'[p].out = "returned"
             /\ w'[p].ret = PyNone /\ w'[p].produced = 0)]_vars

\* ---- SpecInFlight: wrapped calls of one key, and invalidations and deletes
\* that cover the key while a call is awaiting func; the server answers
\* the key_pattern arguments: k* and x*
InFlightPatterns == {<<"k", "*">>, <<"x", "*">>}

InitInFlight ==
  /\ now = 0
  /\ cb = CircuitBreaker(MaxThreshold - 1, MaxTimeout, RedisHalfOpenMaxCalls)
  /\ cpc = [c \in Callers |-> "idle"]
  /\ streak = 0
  /\ trials = 0
  /\ client = TRUE
  /\ store = [k \in Keys |-> NoEntry]
  /\ cfg = Config(TtlInt(MaxTtl), FALSE, TRUE, FALSE, FALSE)
  /\ w = [p \in Coroutines |-> Idle]
  /\ stats = CacheService(now)
  /\ last = NoOp
  /\ kb = NoCalls
  /\ bypassing = NoScopes
  /\ san = NoSanitize

\* the frames after an operation that removed the keys ks: the calls of these
\* keys that are awaiting func have been overtaken
Overtake(frames, ks) ==
  [p \in DOMAIN frames |->
     IF frames[p].pc = "producing" /\ frames[p].key \in ks
     THEN [frames[p] EXCEPT !.overtaken = TRUE]
     ELSE frames[p]]

\* cache_service.invalidate(pattern) while wrapped calls are in flight
InFlightInvalidate ==
  /\ \E p \in InFlightPatterns :
       LET r == service_invalidate(client, store, stats, p, now, "ok")
           c == Called("invalidate", "ok")
       IN /\ client' = r.client
          /\ store' = r.store
          /\ stats' = r.stats
          /\ last' = [Args(c, [c EXCEPT !.pattern = p])
                        EXCEPT !.raised = r.raised, !.count = r.ret]
          /\ w' = Overtake(w, {k \in Keys : GlobMatch(p, KeyChars(k))})
  /\ UNCHANGED <<now, cb, callVars, cfg, kb, bypassing, san>>

\* redis_manager.delete(k) while wrapped calls are in flight
InFlightDelete ==
  /\ \E k \in Keys :
       LET r == manager_delete(client, store, k, now, "ok")
           c == Called("delete", "ok")
       IN /\ client' = r.client
          /\ store' = r.store
          /\ last' = [Args(c, [c EXCEPT !.key = k])
                        EXCEPT !.raised = r.raised, !.flag = r.ret]
          /\ w' = Overtake(w, {k})
  /\ UNCHANGED <<now, cb, callVars, cfg, stats, kb, bypassing, san>>

NextInFlight ==
  \/ Tick
  \/ \E p \in Coroutines : WrapperCallOf(p, {Absent}, {"ok"})
  \/ \E p \in Coroutines : ProducerReturnsOf(p, {PyZero, PyStr}, {"ok"})
  \/ InFlightInvalidate
  \/ InFlightDelete

SpecInFlight == InitInFlight /\ [][NextInFlight]_vars

\* C38 as the claim states it: once an invalidation or a delete that covers a
\* key has returned, no entry of the key is live until a call made after it
\* stores one; the call that was awaiting func meanwhile leaves the store as
\* it is when func returns.
C38_AsStated ==
  /\ [][(last' # last /\ last'.op \in {"invalidate", "delete"})
          => \A k \in Keys :
               (IF last'.op = "delete" THEN k = last'.key
                ELSE GlobMatch(last'.pattern, KeyChars(k)))
                 => ~Live(store'[k], now)]_vars
  /\ [][\A p \in DOMAIN w :
          (w[p].pc = "producing" /\ w[p].overtaken /\ w'[p].pc = "done")
            => store' = store]_vars

\* ---- SpecSequential: calls of CircuitBreaker.call one after the other, as
\* on the event loop, where call has no await
\* no call is inside func
NoneInFunc == \A c \in Callers : cpc[c] # "in_func"

\* a caller starts a call when the call before it is over
SequentialCall(c) == NoneInFunc /\ BeginCall(c)

NextSequential ==
  \/ Tick
  \/ \E c \in Callers : SequentialCall(c)
  \/ \E c \in Callers : FuncReturns(c)
  \/ \E c \in Callers : FuncRaises(c)

SpecSequential == InitBreaker /\ [][NextSequential]_vars

\* C39: in every state reached by calls made one after the other, on a breaker
\* with failure_threshold >= 1: a CLOSED breaker has failure_count below
\* failure_threshold, an OPEN or HALF_OPEN one has it at or above
\* failure_threshold, and half_open_calls is at most half_open_max_calls.
C39_SequentialInvariants ==
  cb.failure_threshold >= 1 =>
    /\ cb.state = CLOSED => cb.failure_count < cb.failure_threshold
    /\ cb.state \in {OPEN, HALF_OPEN}
         => cb.failure_count >= cb.failure_threshold
    /\ cb.half_open_calls <= cb.half_open_max_calls

\* C39 happens: the breaker has opened, let its quota of one trial call
\* through after the cooldown, and is OPEN again after that call failed, with
\* no call running
C39_Witness ==
  /\ cb.state = OPEN /\ NoneInFunc
  /\ cb.half_open_max_calls = 1 /\ cb.half_open_calls = 1 /\ trials = 1
  /\ cb.failure_count = cb.failure_threshold
  /\ \E c \in Callers : cpc[c] = "raised"

\* ---- SpecRecovery: SpecBreaker with a clock that never stops, calls that
\* keep arriving and calls that all come to an end
\* The clock advances. Past MaxTime the readings are shifted back by a second
\* instead: call reads them only in time.time() > last_failure_time +
\* recovery_timeout, which the shift keeps as long as MaxTime exceeds the
\* recovery_timeout.
TickOn ==
  /\ IF now < MaxTime
     THEN now' = now + 1 /\ cb' = cb
     ELSE /\ now' = now
          /\ cb' = [cb EXCEPT !.last_failure_time = IF @ > 0 THEN @ - 1 ELSE 0]
  /\ UNCHANGED <<callVars, wrapVars, svcVars>>

InitRecovery ==
  /\ now = 0
  /\ \E to \in 1..MaxTimeout, mc \in 1..MaxHalfOpen :
       cb = CircuitBreaker(MaxThreshold - 1, to, mc)
  /\ cpc = [c \in Callers |-> "idle"]
  /\ streak = 0
  /\ trials = 0
  /\ client = TRUE
  /\ store = [k \in Keys |-> NoEntry]
  /\ cfg = Config(TtlNone, FALSE, TRUE, FALSE, FALSE)
  /\ w = [p \in Coroutines |-> Idle]
  /\ stats = CacheService(now)
  /\ last = NoOp
  /\ kb = NoCalls
  /\ bypassing = NoScopes
  /\ san = NoSanitize

NextRecovery ==
  \/ TickOn
  \/ \E c \in Callers : BeginCall(c)
  \/ \E c \in Callers : FuncReturns(c)
  \/ \E c \in Callers : FuncRaises(c)

\* time keeps advancing, every caller keeps calling, and every call of func
\* comes to an end
SpecRecovery ==
  /\ InitRecovery
  /\ [][NextRecovery]_vars
  /\ WF_vars(TickOn)
  /\ \A c \in Callers : WF_vars(BeginCall(c))
  /\ \A c \in Callers : WF_vars(FuncReturns(c) \/ FuncRaises(c))

\* a call of func fails in this step
Fails == \E c \in Callers : Raises(c)

\* C40: the breaker never gets stuck. If from some point on no call of func
\* fails, then from some point on the breaker is CLOSED and a call made at
\* that time is let through.
C40_NeverStuck ==
  <>[][~Fails]_vars => <>[](cb.state = CLOSED /\ Admission(cb, now).admitted)

\* C40 happens: the breaker has been OPEN, has let a trial call through after
\* the cooldown, and is CLOSED again with failure_count 0 after that call
\* succeeded
C40_Witness ==
  /\ cb.state = CLOSED /\ cb.failure_count = 0
  /\ cb.half_open_calls >= 1 /\ trials >= 1
  /\ cb.last_failure_time + cb.recovery_timeout < now
  /\ \E c \in Callers : cpc[c] = "returned"

====
